---- MODULE Spec2Model ----
(***************************************************************************)
(* A model of pbnj's metadata pipeline: PBIXParser (core/parser.py), which *)
(* loads a PBIXRay model handle, extracts the facets of a .pbix file into  *)
(* one cached metadata document, and the insight functions of             *)
(* DocumentationGenerator (docs/generator.py); and of what drives it: the  *)
(* request handlers of web/server.py, the commands of cli/main.py and the  *)
(* GitHelper of core/git_integration.py.                                   *)
(*                                                                         *)
(* Python values are modelled as follows.  A str that the code only        *)
(* passes around is a TLA+ string; a str that the code scans (the Power    *)
(* Query text) is a sequence of one-character strings.  None is the empty  *)
(* sequence << >> and a present optional value x is << x >>.  A dict is a   *)
(* record, a list is a sequence.                                           *)
(***************************************************************************)
EXTENDS Integers, Sequences, FiniteSets, TLC

\* Bounds of the model.
MaxRows == 2
MaxCalls == 3
MaxRaising == 2
MaxFrags == 4

VARIABLES
    text,       \* the text handed to the Power Query parsing functions
    queries,    \* << >> or << result of _parse_power_query_code(text) >>
    steps,      \* << >> or << result of _extract_query_steps(text) >>
    gdoc,       \* self.metadata of the DocumentationGenerator
    score,      \* << >> or << result of _calculate_complexity_score() >>
    sources,    \* << >> or << result of _identify_data_sources() >>
    gattrs,     \* the attribute names of the DocumentationGenerator instance
    gcalls,     \* calls made on the generator
    gret,       \* outcome of the last call on the generator
    snapshot,   \* the file .pbnj/metadata.json of the working directory
    current_project_path, \* web/server.py: the global of that name
    current_metadata,     \* web/server.py: the global of that name
    temp_files, \* the files of .pbnj/temp in the working directory
    exports,    \* the export.<format> files of the working directory
    docs,       \* the documentation files were written by generate_all
    requests,   \* requests the server has answered
    request,    \* the last request: its route and its argument
    response,   \* the answer to the last request
    worktree,   \* what GitHelper.repo_path names on the disk
    gitignore,  \* the .gitignore file of repo_path: << >> or << content >>
    commits,    \* the commits of the repository at repo_path, oldest first
    index,      \* the files staged in its index and not yet committed
    changes,    \* the files of the working tree that differ from the index
    helper_repo,\* self.repo of the GitHelper is set
    gitcalls,   \* calls made on the GitHelper
    gitreq,     \* the last call on the GitHelper: its name and its argument
    gitret,     \* outcome of the last call on the GitHelper
    pbnj_dir,   \* the directory .pbnj exists in the working directory
    console,    \* the lines the last command printed
    exit_code,  \* << >> or << exit code of the last command >>
    serving,    \* start_server was called
    generated,  \* the documentation formats the commands generated
    command,    \* the last command: its name and its format option
    runs,       \* commands run
    env,        \* the patched upstream: what PBIXRay(path) exposes
    live,       \* the PBIXParser instances that exist
    model,      \* self.model of each instance: << >> or << handle >>
    metadata,   \* self._metadata of each instance: << >> or << document >>
    built,      \* documents assembled by each instance (object identities)
    loaderCalls,\* invocations of PBIXRay(...) by each instance
    loaderRaised,\* those invocations that raised
    statCalls,  \* invocations of pbix_path.stat() by each instance
    statRaised, \* those invocations that raised
    reads,      \* reads of each accessor of the handle, by each instance
    calls,      \* public calls made on each instance
    raised,     \* public calls that raised
    ret,        \* outcome of the last public call on each instance
    saved       \* the snapshot file written by save_metadata, per instance

vars == <<text, queries, steps, gdoc, score, sources, gattrs, gcalls, gret, snapshot,
          current_project_path, current_metadata, temp_files, exports, docs, requests,
          request, response, worktree, gitignore, commits, index, changes, helper_repo,
          gitcalls, gitreq, gitret, pbnj_dir, console, exit_code, serving, generated,
          command, runs, env, live, model, metadata, built, loaderCalls, loaderRaised,
          statCalls, statRaised, reads, calls, raised, ret, saved>>

Parsers == {"p1", "p2"}

None == << >>
Some(x) == << x >>

\* dict.get(key, default) on a record.
Get(d, key, default) == IF key \in DOMAIN d THEN d[key] ELSE default

\* All sequences over S of length at most n.
SeqsUpTo(S, n) == UNION {[1..k -> S] : k \in 0..n}


(***************************************************************************)
(* Python str operations, on sequences of characters.                      *)
(***************************************************************************)

\* s.startswith(p)
StartsWith(s, p) == Len(s) >= Len(p) /\ SubSeq(s, 1, Len(p)) = p

\* s.find(p): the index of the first occurrence of p in s, 0 when none.
RECURSIVE FindFrom(_, _, _)
FindFrom(s, p, i) ==
    IF i + Len(p) - 1 > Len(s) THEN 0
    ELSE IF SubSeq(s, i, i + Len(p) - 1) = p THEN i
    ELSE FindFrom(s, p, i + 1)

Find(s, p) == FindFrom(s, p, 1)

\* p in s
Contains(s, p) == Find(s, p) # 0

\* s.split(sep): cut at each occurrence of sep, scanning left to right.
RECURSIVE Split(_, _)
Split(s, sep) ==
    LET i == Find(s, sep) IN
    IF i = 0 THEN << s >>
    ELSE << SubSeq(s, 1, i - 1) >> \o Split(SubSeq(s, i + Len(sep), Len(s)), sep)

\* The characters str.strip() removes (those that occur in the modelled texts).
Whitespace == {" ", "\t", "\n", "\r"}

RECURSIVE LStrip(_)
LStrip(s) == IF s # << >> /\ Head(s) \in Whitespace THEN LStrip(Tail(s)) ELSE s

RECURSIVE RStrip(_)
RStrip(s) ==
    IF s # << >> /\ s[Len(s)] \in Whitespace THEN RStrip(SubSeq(s, 1, Len(s) - 1)) ELSE s

\* s.strip()
Strip(s) == RStrip(LStrip(s))

(***************************************************************************)
(* PBIXParser: the Power Query text functions.                             *)
(***************************************************************************)

LetKw == << "l", "e", "t" >>
Newline == << "\n" >>
Equals == << "=" >>
CommentMark == << "/", "/" >>

\* Mutant: the line is classified before it is stripped.
RECURSIVE StepsOfLinesUnstripped(_)
StepsOfLinesUnstripped(lines) ==
    IF lines = << >> THEN << >>
    ELSE LET line == Head(lines) IN
         (IF Contains(line, Equals) /\ ~StartsWith(line, CommentMark)
          THEN << Strip(line) >> ELSE << >>) \o StepsOfLinesUnstripped(Tail(lines))

\* _extract_query_steps: the stripped lines holding "=" and not starting "//".
RECURSIVE StepsOfLines(_)
StepsOfLines(lines) ==
    IF lines = << >> THEN << >>
    ELSE LET line == Strip(Head(lines)) IN
         (IF Contains(line, Equals) /\ ~StartsWith(line, CommentMark)
          THEN << line >> ELSE << >>) \o StepsOfLines(Tail(lines))

ExtractQuerySteps(query_code) == StepsOfLines(Split(query_code, Newline))

\* f"Query_{i}"
QueryName(i) == "Query_" \o ToString(i)

\* Mutant: the section before the first "let" is not skipped.
ParsePowerQueryCodeAllSections(pq_code) ==
    LET sections == Split(pq_code, LetKw) IN
    [i \in 1..Len(sections) |->
        [name  |-> QueryName(i),
         code  |-> LetKw \o sections[i],
         steps |-> ExtractQuerySteps(LetKw \o sections[i])]]

\* Mutant: the code of a query is its section without the blanks around it.
ParsePowerQueryCodeStripped(pq_code) ==
    LET sections == Split(pq_code, LetKw) IN
    [i \in 1..(Len(sections) - 1) |->
        [name  |-> QueryName(i),
         code  |-> LetKw \o Strip(sections[i + 1]),
         steps |-> ExtractQuerySteps(LetKw \o sections[i + 1])]]

\* _parse_power_query_code: one query per section after the first "let".
ParsePowerQueryCode(pq_code) ==
    LET sections == Split(pq_code, LetKw) IN
    [i \in 1..(Len(sections) - 1) |->
        [name  |-> QueryName(i),
         code  |-> LetKw \o sections[i + 1],
         steps |-> ExtractQuerySteps(LetKw \o sections[i + 1])]]


(***************************************************************************)
(* The upstream collaborator: what a PBIXRay handle exposes.  An accessor  *)
(* listed in raises raises Exception(cause) when it is read.               *)
(***************************************************************************)

Accessors == {"tables", "schema", "relationships", "dax_measures",
              "dax_columns", "power_query", "metadata"}

TableNames == {"Sales", "Customers"}

SchemaRows ==
    << [TableName |-> "Sales", ColumnName |-> "Amount", PandasDataType |-> "float64"],
       [TableName |-> "Customers", ColumnName |-> "CustomerID", PandasDataType |-> "int64"],
       [TableName |-> "Sales", ColumnName |-> "CustomerID"] >>

RelationshipRow(k) ==
    IF k % 2 = 1
    THEN [FromTableName |-> "Sales", FromColumnName |-> "CustomerID",
          ToTableName |-> "Customers", ToColumnName |-> "CustomerID",
          Cardinality |-> "M:1", CrossFilteringBehavior |-> "Single",
          IsActive |-> FALSE]
    ELSE [FromTableName |-> "Sales", ToTableName |-> "Customers"]

MeasureRow(k) ==
    [Name |-> "Measure_" \o ToString(k), TableName |-> "Sales",
     Expression |-> "SUM(Sales[Amount])", Description |-> "", DisplayFolder |-> ""]

CalcColumnRow(k) ==
    [ColumnName |-> "Calc_" \o ToString(k), TableName |-> "Sales",
     Expression |-> "Sales[Amount] * 2", DataType |-> "double"]

\* A dict whose keys are not str (the row index of a DataFrame) is the
\* sequence of its items, each key tagged with its type.
IntKey(n) == [int |-> n]
StrKey(s) == [str |-> s]
Item(key, value) == [key |-> key, value |-> value]

\* model.metadata: None, a DataFrame-like object (to_dict gives a column ->
\* {row index -> value} mapping), or an object without to_dict.
MetadataObjects ==
    { None,
      Some([to_dict |-> [Name  |-> << Item(IntKey(0), "Version") >>,
                         Value |-> << Item(IntKey(0), "1.0") >>]]),
      Some([repr |-> "opaque"]) }

\* model.power_query: None or the M code.
TwoQueryText ==
    << "l", "e", "t", "\n", " ", "S", "=", "E", "x", "c", "e", "l", "\n",
       "i", "n", " ", "S", "\n",
       "l", "e", "t", " ", "T", "=", "S", "Q", "L" >>

OneQueryText == << "l", "e", "t", " ", "S", "=", "1", "\n", "i", "n", " ", "S" >>

PowerQueryTexts == {None, Some(TwoQueryText)}

Causes == {"access failed"}

RaiseSets == {r \in SUBSET Accessors : Cardinality(r) <= MaxRaising}

\* sizes: pairs << number of relationship rows, number of measure rows >>.
Envs(tableSeqs, sizes, pqs, mds, raiseSets) ==
    { [tables        |-> t,
       schema        |-> SchemaRows,
       relationships |-> [k \in 1..n[1] |-> RelationshipRow(k)],
       dax_measures  |-> [k \in 1..n[2] |-> MeasureRow(k)],
       dax_columns   |-> [k \in 1..n[2] |-> CalcColumnRow(k)],
       power_query   |-> pq,
       metadata      |-> md,
       raises        |-> r,
       cause         |-> c,
       size_bytes    |-> 3145728] :
      t \in tableSeqs, n \in sizes, pq \in pqs, md \in mds, r \in raiseSets, c \in Causes }

(***************************************************************************)
(* PBIXParser: the facet extractors.  Each takes the model handle m.       *)
(***************************************************************************)

\* A schema row whose conversion raises: what iterrows hands out for it has
\* no usable get.
BrokenRow(table_name) == [TableName |-> table_name, broken |-> TRUE]
IsBroken(row) == "broken" \in DOMAIN row

\* Mutant: a column whose name ends in ID is taken for a key, and a key for
\* not nullable.
ExtractTableColumnsFromSchemaInferred(rows) ==
    [k \in 1..Len(rows) |->
        [name        |-> Get(rows[k], "ColumnName", ""),
         data_type   |-> Get(rows[k], "PandasDataType", ""),
         is_key      |-> Get(rows[k], "ColumnName", "") = "CustomerID",
         is_nullable |-> Get(rows[k], "ColumnName", "") # "CustomerID",
         description |-> ""]]

\* _extract_table_columns_from_schema: the columns of the rows, or the empty
\* list of the except branch (line 90) when the conversion of a row raises.
ExtractTableColumnsFromSchema(rows) ==
    IF \E k \in 1..Len(rows) : IsBroken(rows[k]) THEN << >>
    ELSE
    [k \in 1..Len(rows) |->
        [name        |-> Get(rows[k], "ColumnName", ""),
         data_type   |-> Get(rows[k], "PandasDataType", ""),
         is_key      |-> FALSE,
         is_nullable |-> TRUE,
         description |-> ""]]

\* schema_df[schema_df['TableName'] == table_name]
SchemaOf(schema, table_name) == SelectSeq(schema, LAMBDA row : row.TableName = table_name)

\* Mutant: the column extraction has no try block of its own, so that a row
\* that raises fails the whole tables facet.
ExtractTablesColumnsUncaught(m) ==
    IF \/ "tables" \in m.raises \/ "schema" \in m.raises
       \/ \E k \in 1..Len(m.tables), r \in 1..Len(m.schema) :
             m.schema[r].TableName = m.tables[k] /\ IsBroken(m.schema[r])
    THEN << [error |-> "Failed to extract tables: " \o m.cause] >>
    ELSE [k \in 1..Len(m.tables) |->
            [name        |-> m.tables[k],
             type        |-> "Table",
             description |-> "",
             hidden      |-> FALSE,
             columns     |-> ExtractTableColumnsFromSchema(SchemaOf(m.schema, m.tables[k]))]]

\* Mutant: the loop over the table names starts at the second name.
ExtractTablesSkipFirst(m) ==
    IF "tables" \in m.raises \/ "schema" \in m.raises
    THEN << [error |-> "Failed to extract tables: " \o m.cause] >>
    ELSE [k \in 1..(Len(m.tables) - 1) |->
            [name        |-> m.tables[k + 1],
             type        |-> "Table",
             description |-> "",
             hidden      |-> FALSE,
             columns     |-> ExtractTableColumnsFromSchema(SchemaOf(m.schema, m.tables[k + 1]))]]

\* _extract_tables
ExtractTables(m) ==
    IF "tables" \in m.raises \/ "schema" \in m.raises
    THEN << [error |-> "Failed to extract tables: " \o m.cause] >>
    ELSE [k \in 1..Len(m.tables) |->
            [name        |-> m.tables[k],
             type        |-> "Table",
             description |-> "",
             hidden      |-> FALSE,
             columns     |-> ExtractTableColumnsFromSchema(SchemaOf(m.schema, m.tables[k]))]]

\* Mutant: IsActive is read with rel["IsActive"], which raises KeyError on a
\* row without it.
ExtractRelationshipsSubscript(m) ==
    IF "relationships" \in m.raises
    THEN << [error |-> "Failed to extract relationships: " \o m.cause] >>
    ELSE IF \E k \in 1..Len(m.relationships) : "IsActive" \notin DOMAIN m.relationships[k]
    THEN << [error |-> "Failed to extract relationships: 'IsActive'"] >>
    ELSE [k \in 1..Len(m.relationships) |->
            LET rel == m.relationships[k] IN
            [from_table             |-> Get(rel, "FromTableName", ""),
             from_column            |-> Get(rel, "FromColumnName", ""),
             to_table               |-> Get(rel, "ToTableName", ""),
             to_column              |-> Get(rel, "ToColumnName", ""),
             cardinality            |-> Get(rel, "Cardinality", ""),
             cross_filter_direction |-> Get(rel, "CrossFilteringBehavior", ""),
             is_active              |-> rel.IsActive]]

\* _extract_relationships
ExtractRelationships(m) ==
    IF "relationships" \in m.raises
    THEN << [error |-> "Failed to extract relationships: " \o m.cause] >>
    ELSE [k \in 1..Len(m.relationships) |->
            LET rel == m.relationships[k] IN
            [from_table             |-> Get(rel, "FromTableName", ""),
             from_column            |-> Get(rel, "FromColumnName", ""),
             to_table               |-> Get(rel, "ToTableName", ""),
             to_column              |-> Get(rel, "ToColumnName", ""),
             cardinality            |-> Get(rel, "Cardinality", ""),
             cross_filter_direction |-> Get(rel, "CrossFilteringBehavior", ""),
             is_active              |-> Get(rel, "IsActive", TRUE)]]

\* _extract_measures
ExtractMeasures(m) ==
    IF "dax_measures" \in m.raises
    THEN << [error |-> "Failed to extract measures: " \o m.cause] >>
    ELSE [k \in 1..Len(m.dax_measures) |->
            LET measure == m.dax_measures[k] IN
            [name           |-> Get(measure, "Name", ""),
             table          |-> Get(measure, "TableName", ""),
             expression     |-> Get(measure, "Expression", ""),
             description    |-> Get(measure, "Description", ""),
             display_folder |-> Get(measure, "DisplayFolder", ""),
             format_string  |-> ""]]

\* Mutant: the except branch copied from _extract_measures with its message.
ExtractCalculatedColumnsCopiedMessage(m) ==
    IF "dax_columns" \in m.raises
    THEN << [error |-> "Failed to extract measures: " \o m.cause] >>
    ELSE [k \in 1..Len(m.dax_columns) |->
            LET column == m.dax_columns[k] IN
            [name           |-> Get(column, "ColumnName", ""),
             table          |-> Get(column, "TableName", ""),
             expression     |-> Get(column, "Expression", ""),
             description    |-> Get(column, "Description", ""),
             data_type      |-> Get(column, "DataType", ""),
             display_folder |-> Get(column, "DisplayFolder", "")]]

\* _extract_calculated_columns
ExtractCalculatedColumns(m) ==
    IF "dax_columns" \in m.raises
    THEN << [error |-> "Failed to extract calculated columns: " \o m.cause] >>
    ELSE [k \in 1..Len(m.dax_columns) |->
            LET column == m.dax_columns[k] IN
            [name           |-> Get(column, "ColumnName", ""),
             table          |-> Get(column, "TableName", ""),
             expression     |-> Get(column, "Expression", ""),
             description    |-> Get(column, "Description", ""),
             data_type      |-> Get(column, "DataType", ""),
             display_folder |-> Get(column, "DisplayFolder", "")]]

\* Mutant: the text is tested for truth, not against None, so that an empty
\* text counts as absent.
ExtractPowerQueryTruthy(m) ==
    IF "power_query" \in m.raises
    THEN [error |-> "Failed to extract Power Query: " \o m.cause]
    ELSE IF m.power_query = None \/ m.power_query = Some(<< >>)
    THEN [queries |-> << >>, parameters |-> << >>, functions |-> << >>]
    ELSE [queries    |-> ParsePowerQueryCode(m.power_query[1]),
          parameters |-> << >>,
          functions  |-> << >>,
          raw_code   |-> m.power_query[1]]

\* _extract_power_query
ExtractPowerQuery(m) ==
    IF "power_query" \in m.raises
    THEN [error |-> "Failed to extract Power Query: " \o m.cause]
    ELSE IF m.power_query = None
    THEN [queries |-> << >>, parameters |-> << >>, functions |-> << >>]
    ELSE [queries    |-> ParsePowerQueryCode(m.power_query[1]),
          parameters |-> << >>,
          functions  |-> << >>,
          raw_code   |-> m.power_query[1]]

\* _extract_parameters: reads nothing of the handle.
ExtractParameters(m) == << >>

\* The empty dict.
EmptyDict == [k \in {} |-> k]

\* _extract_model_metadata
ExtractModelMetadata(m) ==
    IF "metadata" \in m.raises
    THEN [error |-> "Failed to extract metadata: " \o m.cause]
    ELSE IF m.metadata = None THEN EmptyDict
    ELSE IF "to_dict" \in DOMAIN m.metadata[1] THEN m.metadata[1].to_dict
    ELSE EmptyDict

PbixName == "report.pbix"
PbixPath == "/data/report.pbix"

\* Mutant: one try block around all the extractors, so that the first
\* accessor that raises leaves the later facets empty.
DocumentOneTry(m) ==
    LET order == << "tables", "relationships", "measures", "calculated_columns",
                    "power_query", "parameters", "metadata" >>
        needs == [tables |-> {"tables", "schema"}, relationships |-> {"relationships"},
                  measures |-> {"dax_measures"}, calculated_columns |-> {"dax_columns"},
                  power_query |-> {"power_query"}, parameters |-> {},
                  metadata |-> {"metadata"}]
        reached(k) == \A j \in 1..(k - 1) : needs[order[j]] \cap m.raises = {}
    IN
    [file_info          |-> [name |-> PbixName, path |-> PbixPath,
                             size_bytes |-> m.size_bytes],
     tables             |-> ExtractTables(m),
     relationships      |-> IF reached(2) THEN ExtractRelationships(m) ELSE << >>,
     measures           |-> IF reached(3) THEN ExtractMeasures(m) ELSE << >>,
     calculated_columns |-> IF reached(4) THEN ExtractCalculatedColumns(m) ELSE << >>,
     power_query        |-> IF reached(5) THEN ExtractPowerQuery(m) ELSE EmptyDict,
     parameters         |-> ExtractParameters(m),
     metadata           |-> IF reached(7) THEN ExtractModelMetadata(m) ELSE EmptyDict]

\* The dict literal of extract_metadata, once the stat has succeeded.
Document(m) ==
    [file_info          |-> [name |-> PbixName, path |-> PbixPath,
                             size_bytes |-> m.size_bytes],
     tables             |-> ExtractTables(m),
     relationships      |-> ExtractRelationships(m),
     measures           |-> ExtractMeasures(m),
     calculated_columns |-> ExtractCalculatedColumns(m),
     power_query        |-> ExtractPowerQuery(m),
     parameters         |-> ExtractParameters(m),
     metadata           |-> ExtractModelMetadata(m)]

\* The accessor reads of one run of the extractors: model.schema is read
\* after model.tables, inside the same try block.
ReadsOfRun(m) ==
    [a \in Accessors |-> IF a = "schema" /\ "tables" \in m.raises THEN 0 ELSE 1]


(***************************************************************************)
(* PBIXParser: the public operations.                                      *)
(***************************************************************************)

\* round(size_bytes / (1024 * 1024), 2), in hundredths of a megabyte.
FileSizeMb(size_bytes) == (200 * size_bytes + 1024 * 1024) \div (2 * 1024 * 1024)

\* Mutant: an error placeholder is not counted as a record.
SummaryWithoutPlaceholders(doc) ==
    LET records(lst) == SelectSeq(lst, LAMBDA r : "error" \notin DOMAIN r) IN
    [file_name          |-> doc.file_info.name,
     file_size_mb       |-> FileSizeMb(doc.file_info.size_bytes),
     table_count        |-> Len(records(Get(doc, "tables", << >>))),
     measure_count      |-> Len(records(Get(doc, "measures", << >>))),
     relationship_count |-> Len(records(Get(doc, "relationships", << >>))),
     power_query_count  |-> Len(Get(Get(doc, "power_query", EmptyDict), "queries", << >>))]

\* The summary dict of get_summary.
Summary(doc) ==
    [file_name          |-> doc.file_info.name,
     file_size_mb       |-> FileSizeMb(doc.file_info.size_bytes),
     table_count        |-> Len(Get(doc, "tables", << >>)),
     measure_count      |-> Len(Get(doc, "measures", << >>)),
     relationship_count |-> Len(Get(doc, "relationships", << >>)),
     power_query_count  |-> Len(Get(Get(doc, "power_query", EmptyDict), "queries", << >>))]

\* json.dump writes an int key of a dict as the string of its digits.
JsonKey(key) == IF "int" \in DOMAIN key THEN StrKey(ToString(key.int)) ELSE key

JsonKeys(items) == [k \in 1..Len(items) |-> Item(JsonKey(items[k].key), items[k].value)]

\* json.dump(metadata, ..., default=str): the tree that is written.  Only the
\* to_dict() mapping of the model metadata holds keys that are not strings.
JsonDump(doc) ==
    [doc EXCEPT !.metadata =
        [c \in DOMAIN @ |-> IF c = "error" THEN @[c] ELSE JsonKeys(@[c])]]

textVars == << text, queries, steps >>
genVars == << gdoc, score, sources, gattrs, gcalls, gret >>
webVars == << snapshot, current_project_path, current_metadata, temp_files, exports,
             docs, requests, request, response >>
gitVars == << worktree, gitignore, commits, index, changes, helper_repo, gitcalls, gitreq,
             gitret >>
cliVars == << pbnj_dir, console, exit_code, serving, generated, command, runs >>

\* What a public call hands back to its caller.
Returned(kind, value) == [kind |-> kind, value |-> value]
Raised(error) == [kind |-> "raise", value |-> error]

\* Mutant: extract_metadata without its first two lines (the cache test).
OutcomeNoCache(i, loadOk, statOk) ==
    IF model[i] = None /\ ~loadOk THEN "LoadError"
    ELSE IF ~statOk THEN "StatError"
    ELSE "extracted"

\* Mutant: _load_model without its test, the loader is reached in every
\* extraction.
OutcomeLoaderNotCached(i, loadOk, statOk) ==
    IF metadata[i] # None THEN "cached"
    ELSE IF ~loadOk THEN "LoadError"
    ELSE IF ~statOk THEN "StatError"
    ELSE "extracted"

\* How a run of extract_metadata on instance i ends, given whether the
\* loader and the stat succeed when they are reached.
Outcome(i, loadOk, statOk) ==
    IF metadata[i] # None THEN "cached"
    ELSE IF model[i] = None /\ ~loadOk THEN "LoadError"
    ELSE IF ~statOk THEN "StatError"
    ELSE "extracted"

\* Mutant: a loader failure is turned into an error document, like a facet
\* failure, and cached.
AssignedMetadataLoadIsolated(i, out, handle) ==
    IF out = "extracted"
    THEN Some([id |-> << i, built[i] + 1 >>, doc |-> Document(handle[1])])
    ELSE IF out = "LoadError"
    THEN Some([id |-> << i, built[i] + 1 >>, doc |-> [error |-> "Failed to load model"]])
    ELSE metadata[i]

\* Mutant: a stat failure is turned into an error record in file_info, and
\* the document is assembled and cached all the same.
AssignedMetadataStatIsolated(i, out, handle) ==
    IF out = "extracted"
    THEN Some([id |-> << i, built[i] + 1 >>, doc |-> Document(handle[1])])
    ELSE IF out = "StatError"
    THEN Some([id  |-> << i, built[i] + 1 >>,
               doc |-> [Document(handle[1]) EXCEPT
                           !.file_info = [error |-> "Failed to stat file"]]])
    ELSE metadata[i]

\* Mutant: the documents are kept in a cache shared by the instances (keyed
\* by the path), so that an instance takes the document another instance of
\* the same file has already built.
AssignedMetadataSharedCache(i, out, handle) ==
    IF out = "extracted"
    THEN IF \E j \in live \ {i} : metadata[j] # None
         THEN metadata[CHOOSE j \in live \ {i} : metadata[j] # None]
         ELSE Some([id |-> << i, built[i] + 1 >>, doc |-> Document(handle[1])])
    ELSE metadata[i]

\* self._metadata after a run that ended out: the assignment of line 32 is
\* reached only when the loader and the stat have both succeeded.
AssignedMetadata(i, out, handle) ==
    IF out = "extracted"
    THEN Some([id |-> << i, built[i] + 1 >>, doc |-> Document(handle[1])])
    ELSE metadata[i]

\* _load_model and extract_metadata: the effect on the instance and on the
\* collaborators.
Extract(i, loadOk, statOk) ==
    LET out == Outcome(i, loadOk, statOk)
        loads == (metadata[i] = None /\ model[i] = None)
        stats == out \in {"StatError", "extracted"}
    IN
    /\ loaderCalls' = [loaderCalls EXCEPT ![i] = @ + (IF loads THEN 1 ELSE 0)]
    /\ loaderRaised' = [loaderRaised EXCEPT ![i] = @ + (IF out = "LoadError" THEN 1 ELSE 0)]
    /\ model' = [model EXCEPT ![i] = IF loads /\ loadOk THEN Some(env) ELSE @]
    /\ statCalls' = [statCalls EXCEPT ![i] = @ + (IF stats THEN 1 ELSE 0)]
    /\ statRaised' = [statRaised EXCEPT ![i] = @ + (IF out = "StatError" THEN 1 ELSE 0)]
    /\ metadata' = [metadata EXCEPT ![i] = AssignedMetadata(i, out, model'[i])]
    /\ IF out = "extracted"
       THEN /\ built' = [built EXCEPT ![i] = @ + 1]
            /\ reads' = [reads EXCEPT ![i] =
                            [a \in Accessors |-> @[a] + ReadsOfRun(model'[i][1])[a]]]
       ELSE UNCHANGED << built, reads >>

\* The bookkeeping of one public call.
Called(i, out) ==
    /\ calls' = [calls EXCEPT ![i] = @ + 1]
    /\ raised' = [raised EXCEPT ![i] = @ + (IF out \in {"LoadError", "StatError"} THEN 1 ELSE 0)]

\* parser.extract_metadata()
ExtractMetadata(i) ==
    /\ calls[i] < MaxCalls
    /\ \E loadOk \in BOOLEAN, statOk \in BOOLEAN :
          LET out == Outcome(i, loadOk, statOk) IN
          /\ Extract(i, loadOk, statOk)
          /\ Called(i, out)
          /\ ret' = [ret EXCEPT ![i] =
                        IF out \in {"LoadError", "StatError"} THEN Raised(out)
                        ELSE Returned("document", metadata'[i][1])]
    /\ UNCHANGED << saved, env, live, textVars, genVars, webVars, gitVars, cliVars >>

\* parser.get_summary()
GetSummary(i) ==
    /\ calls[i] < MaxCalls
    /\ \E loadOk \in BOOLEAN, statOk \in BOOLEAN :
          LET out == Outcome(i, loadOk, statOk) IN
          /\ Extract(i, loadOk, statOk)
          /\ Called(i, out)
          /\ ret' = [ret EXCEPT ![i] =
                        IF out \in {"LoadError", "StatError"} THEN Raised(out)
                        ELSE Returned("summary", Summary(metadata'[i][1].doc))]
    /\ UNCHANGED << saved, env, live, textVars, genVars, webVars, gitVars, cliVars >>

\* parser.save_metadata(output_path)
SaveMetadata(i) ==
    /\ calls[i] < MaxCalls
    /\ \E loadOk \in BOOLEAN, statOk \in BOOLEAN :
          LET out == Outcome(i, loadOk, statOk) IN
          /\ Extract(i, loadOk, statOk)
          /\ Called(i, out)
          /\ ret' = [ret EXCEPT ![i] =
                        IF out \in {"LoadError", "StatError"} THEN Raised(out)
                        ELSE Returned("none", None)]
          /\ saved' = [saved EXCEPT ![i] =
                        IF out \in {"LoadError", "StatError"} THEN @
                        ELSE Some(JsonDump(metadata'[i][1].doc))]
    /\ UNCHANGED << env, live, textVars, genVars, webVars, gitVars, cliVars >>

\* PBIXParser.__init__ for every instance of ps, with the upstream e.
Constructed(ps, e) ==
    /\ env = e
    /\ live = ps
    /\ model = [i \in Parsers |-> None]
    /\ metadata = [i \in Parsers |-> None]
    /\ built = [i \in Parsers |-> 0]
    /\ loaderCalls = [i \in Parsers |-> 0]
    /\ loaderRaised = [i \in Parsers |-> 0]
    /\ statCalls = [i \in Parsers |-> 0]
    /\ statRaised = [i \in Parsers |-> 0]
    /\ reads = [i \in Parsers |-> [a \in Accessors |-> 0]]
    /\ calls = [i \in Parsers |-> 0]
    /\ raised = [i \in Parsers |-> 0]
    /\ ret = [i \in Parsers |-> Returned("none", None)]
    /\ saved = [i \in Parsers |-> None]

NoText == text = << >> /\ queries = None /\ steps = None

\* No call made on a generator yet.
NoGeneratorCalls == score = None /\ sources = None /\ gcalls = 0 /\ gret = Returned("none", None)

\* No DocumentationGenerator in use.
NoGenerator == gdoc = EmptyDict /\ gattrs = {} /\ NoGeneratorCalls

\* The server module as imported (lines 52-53), in an empty working directory.
NoServer ==
    /\ snapshot = None
    /\ current_project_path = None
    /\ current_metadata = None
    /\ temp_files = {}
    /\ exports = {}
    /\ docs = FALSE
    /\ requests = 0
    /\ request = [route |-> "none", arg |-> None]
    /\ response = None

\* No GitHelper in use, and nothing at its path.
NoGit ==
    /\ worktree = "missing"
    /\ gitignore = None
    /\ commits = << >>
    /\ index = {}
    /\ changes = {}
    /\ helper_repo = FALSE
    /\ gitcalls = 0
    /\ gitreq = [op |-> "none", arg |-> None]
    /\ gitret = Returned("none", None)

\* No command of the command line was run.
NoCli ==
    /\ pbnj_dir = FALSE
    /\ console = << >>
    /\ exit_code = None
    /\ serving = FALSE
    /\ generated = {}
    /\ command = [name |-> "none", format |-> None]
    /\ runs = 0

\* Two parser instances for one file; every call may fail at the loader or
\* at the stat.
DefaultTables == [k \in 1..MaxRows |-> IF k % 2 = 1 THEN "Sales" ELSE "Customers"]

LifecycleEnvs ==
    Envs({DefaultTables}, {<< MaxRows, MaxRows >>}, PowerQueryTexts \ {None}, {None},
         {{}, {"dax_measures"}})

Init == NoText /\ NoGenerator /\ NoServer /\ NoGit /\ NoCli /\ \E e \in LifecycleEnvs : Constructed(Parsers, e)

Next ==
    \/ \E i \in live : ExtractMetadata(i)
    \/ \E i \in live : GetSummary(i)
    \/ \E i \in live : SaveMetadata(i)

Spec == Init /\ [][Next]_vars

\* The document of instance i and the handle it was extracted from.
Doc(i) == metadata[i][1].doc
Handle(i) == model[i][1]

\* No parser instance: the state of the runs that only apply a function.
NoParsers == Constructed({}, CHOOSE e \in LifecycleEnvs : TRUE)

parserVars == << env, live, model, metadata, built, loaderCalls, loaderRaised,
                 statCalls, statRaised, reads, calls, raised, ret, saved >>

\* The concatenation of a sequence of fragments.
RECURSIVE Concat(_)
Concat(frags) == IF frags = << >> THEN << >> ELSE Head(frags) \o Concat(Tail(frags))

\* Power Query texts: up to MaxFrags pieces of M code, among them the
\* keyword, parts of it, assignments, comment marks and line breaks.
QueryFragments ==
    { LetKw, << "l", "e" >>, << "t" >>, << " " >>, Newline, << "a", "=", "1" >>,
      CommentMark, << "/" >>, Equals, << "b" >>,
      << "/", "/", "b", "=", "2", "\n" >> }

QueryTexts == {Concat(f) : f \in SeqsUpTo(QueryFragments, MaxFrags)}

TextInit ==
    text \in QueryTexts /\ queries = None /\ steps = None /\ NoParsers /\ NoGenerator /\ NoServer /\ NoGit /\ NoCli

\* parser._parse_power_query_code(text)
ParseText ==
    /\ queries = None
    /\ queries' = Some(ParsePowerQueryCode(text))
    /\ UNCHANGED << text, steps, parserVars, genVars, webVars, gitVars, cliVars >>

\* parser._extract_query_steps(text)
StepsText ==
    /\ steps = None
    /\ steps' = Some(ExtractQuerySteps(text))
    /\ UNCHANGED << text, queries, parserVars, genVars, webVars, gitVars, cliVars >>

TextNext == ParseText \/ StepsText

SpecText == TextInit /\ [][TextNext]_vars

(***************************************************************************)
(* DocumentationGenerator: the insight functions, on self.metadata.        *)
(***************************************************************************)

\* Mutant: the weights of the tables and of the measures exchanged.
CalculateComplexityScoreSwapped(md) ==
    Len(Get(md, "tables", << >>)) * 3
    + Len(Get(md, "measures", << >>)) * 2
    + Len(Get(md, "relationships", << >>)) * 1
    + Len(Get(Get(md, "power_query", EmptyDict), "queries", << >>)) * 2

\* _calculate_complexity_score
CalculateComplexityScore(md) ==
    Len(Get(md, "tables", << >>)) * 2
    + Len(Get(md, "measures", << >>)) * 3
    + Len(Get(md, "relationships", << >>)) * 1
    + Len(Get(Get(md, "power_query", EmptyDict), "queries", << >>)) * 2

ExcelWord == << "E", "x", "c", "e", "l" >>
SqlWord == << "S", "Q", "L" >>
SharePointWord == << "S", "h", "a", "r", "e", "P", "o", "i", "n", "t" >>

\* Mutant: the three tests chained with elif, so that only the first source
\* found is reported.
IdentifyDataSourcesFirstOnly(md) ==
    LET pq == Get(md, "power_query", EmptyDict) IN
    IF "raw_code" \notin DOMAIN pq THEN << >>
    ELSE IF Contains(pq.raw_code, ExcelWord) THEN << "Excel" >>
    ELSE IF Contains(pq.raw_code, SqlWord) THEN << "SQL Server" >>
    ELSE IF Contains(pq.raw_code, SharePointWord) THEN << "SharePoint" >>
    ELSE << >>

\* _identify_data_sources
IdentifyDataSources(md) ==
    LET pq == Get(md, "power_query", EmptyDict) IN
    IF "raw_code" \notin DOMAIN pq THEN << >>
    ELSE (IF Contains(pq.raw_code, ExcelWord) THEN << "Excel" >> ELSE << >>)
         \o (IF Contains(pq.raw_code, SqlWord) THEN << "SQL Server" >> ELSE << >>)
         \o (IF Contains(pq.raw_code, SharePointWord) THEN << "SharePoint" >> ELSE << >>)

\* The dict md without the keys of drop.
Without(md, drop) == [k \in DOMAIN md \ drop |-> md[k]]

\* Power Query texts naming data sources: up to MaxFrags pieces, among them
\* the three words looked for, parts of them and other spellings.
SourceFragments ==
    { ExcelWord, << "E", "x" >>, << "c", "e", "l" >>, SqlWord, << "s", "q", "l" >>,
      SharePointWord, << "S", "h", "a", "r", "e" >>, << "P", "o", "i", "n", "t" >> }

SourceTexts == {Concat(f) : f \in SeqsUpTo(SourceFragments, MaxFrags)}

\* The documents a generator is built on: documents of extract_metadata over
\* upstreams of every size, with and without failed facets, the same with
\* keys missing (a snapshot written by hand), and documents over the source
\* texts.
SizedDocuments ==
    { Document(e) :
        e \in Envs({[k \in 1..n |-> DefaultTables[k]] : n \in 0..MaxRows},
                   (0..MaxRows) \X (0..MaxRows),
                   PowerQueryTexts \cup {Some(OneQueryText)}, {None},
                   {r \in RaiseSets : Cardinality(r) <= 1}) }

GeneratorDocuments ==
    SizedDocuments
    \cup { Without(d, drop) :
             d \in {x \in SizedDocuments : Len(x.tables) = MaxRows},
             drop \in SUBSET {"tables", "measures", "relationships", "power_query"} }
    \cup { Document(e) :
             e \in Envs({DefaultTables}, {<< 1, MaxRows >>}, {Some(t) : t \in SourceTexts},
                        {None}, {{}}) }

\* vars(self) after __init__.
GeneratorAttrs == {"metadata", "output_dir", "docs_dir", "pbnj_dir", "jinja_env"}

InsightsInit ==
    /\ gdoc \in GeneratorDocuments
    /\ gattrs = GeneratorAttrs
    /\ NoGeneratorCalls /\ NoText /\ NoParsers /\ NoServer /\ NoGit /\ NoCli

\* generator._calculate_complexity_score()
ComplexityScoreCall ==
    /\ score = None
    /\ score' = Some(CalculateComplexityScore(gdoc))
    /\ UNCHANGED << gdoc, sources, gattrs, gcalls, gret, textVars, parserVars, webVars, gitVars, cliVars >>

\* generator._identify_data_sources()
DataSourcesCall ==
    /\ sources = None
    /\ sources' = Some(IdentifyDataSources(gdoc))
    /\ UNCHANGED << gdoc, score, gattrs, gcalls, gret, textVars, parserVars, webVars, gitVars, cliVars >>

InsightsNext == ComplexityScoreCall \/ DataSourcesCall

SpecInsights == InsightsInit /\ [][InsightsNext]_vars

(***************************************************************************)
(* DocumentationGenerator: the key metrics and the insights report.  A     *)
(* value of another Python type found where a dict is expected is the      *)
(* record [nondict |-> name of the type].                                  *)
(***************************************************************************)

MaxMeasures == 6

\* measures[:5]
TopMeasures == 5

NonDict(type) == [nondict |-> type]

\* isinstance(v, dict)
IsDict(v) == "nondict" \notin DOMAIN v

\* lst[:n]
Prefix(lst, n) == SubSeq(lst, 1, IF n < Len(lst) THEN n ELSE Len(lst))

\* Mutant: the entries are filtered before the slice is taken, so that the
\* first five proper measures are reported.
IdentifyKeyMetricsFilterFirst(md) ==
    LET measures == Get(md, "measures", << >>)
        proper == SelectSeq(measures, LAMBDA measure : IsDict(measure) /\ "name" \in DOMAIN measure)
        top == Prefix(proper, TopMeasures)
    IN [k \in 1..Len(top) |-> top[k].name]

\* Mutant: no slice is taken, every proper measure is reported.
IdentifyKeyMetricsUnsliced(md) ==
    LET measures == Get(md, "measures", << >>)
        proper == SelectSeq(measures, LAMBDA measure : IsDict(measure) /\ "name" \in DOMAIN measure)
    IN [k \in 1..Len(proper) |-> proper[k].name]

\* _identify_key_metrics
IdentifyKeyMetrics(md) ==
    LET measures == Get(md, "measures", << >>)
        top == Prefix(measures, TopMeasures)
        proper == SelectSeq(top, LAMBDA measure : IsDict(measure) /\ "name" \in DOMAIN measure)
    IN [k \in 1..Len(proper) |-> proper[k].name]

\* _extract_insights
ExtractInsights(md) ==
    [complexity_score |-> CalculateComplexityScore(md),
     data_sources     |-> IdentifyDataSources(md),
     key_metrics      |-> IdentifyKeyMetrics(md)]

\* _simplify_for_business
SimplifyForBusiness(md) ==
    [overview     |-> "This Power BI file contains "
                      \o ToString(Len(Get(md, "tables", << >>)))
                      \o " data tables with "
                      \o ToString(Len(Get(md, "measures", << >>)))
                      \o " calculated metrics.",
     key_insights |-> ExtractInsights(md),
     data_sources |-> IdentifyDataSources(md)]

\* Mutant: the facets are looked up with setdefault, which stores the default
\* in the document when the key is missing.
MetadataAfterInsightsSetDefault(md) ==
    [k \in DOMAIN md \cup {"tables", "measures", "relationships", "power_query"} |->
        IF k \in DOMAIN md THEN md[k]
        ELSE IF k = "power_query" THEN EmptyDict ELSE << >>]

\* self.metadata after the insight functions have run: they look facets up
\* with get and a default, slice a copy of the measures and build new lists.
MetadataAfterInsights(md) == md

\* vars(self) after the insight functions have run: they assign no attribute.
AttrsAfterInsights(attrs) == attrs

\* The k-th measure as _extract_measures produces it.
ProperMeasure(k) ==
    [name |-> "Measure_" \o ToString(k), table |-> "Sales",
     expression |-> "SUM(Sales[Amount])", description |-> "",
     display_folder |-> "", format_string |-> ""]

\* Entries a measures list can hold that are no measure: the placeholder of
\* a failed facet, a str, a dict without a name.
MalformedMeasure(k) ==
    CASE k % 3 = 1 -> [error |-> "Failed to extract measures: access failed"]
      [] k % 3 = 2 -> NonDict("str")
      [] OTHER -> [table |-> "Sales"]

\* The documents a report is computed on: those of extract_metadata, and
\* documents whose measures list holds up to MaxMeasures entries, any of
\* them malformed.
ReportDocuments ==
    SizedDocuments
    \cup { [Document(e) EXCEPT !.measures =
               [k \in 1..n |-> IF k \in bad THEN MalformedMeasure(k) ELSE ProperMeasure(k)]] :
             e \in Envs({DefaultTables}, {<< 1, 1 >>}, {Some(TwoQueryText)}, {None}, {{}}),
             n \in 0..MaxMeasures, bad \in SUBSET (1..MaxMeasures) }
    \cup { Without(d, drop) :
             d \in {x \in SizedDocuments : Len(x.tables) = MaxRows /\ Len(x.measures) = MaxRows},
             drop \in SUBSET {"tables", "measures", "relationships", "power_query"} }

ReportInit ==
    /\ gdoc \in ReportDocuments
    /\ gattrs = GeneratorAttrs
    /\ NoGeneratorCalls /\ NoText /\ NoParsers /\ NoServer /\ NoGit /\ NoCli

\* One call of an insight function on the generator.
InsightCall(kind, value) ==
    /\ gcalls < MaxCalls
    /\ gcalls' = gcalls + 1
    /\ gret' = Returned(kind, value)
    /\ gdoc' = MetadataAfterInsights(gdoc)
    /\ gattrs' = AttrsAfterInsights(gattrs)
    /\ UNCHANGED << score, sources, textVars, parserVars, webVars, gitVars, cliVars >>

\* generator._identify_key_metrics()
KeyMetricsCall == InsightCall("key_metrics", IdentifyKeyMetrics(gdoc))

\* generator._extract_insights()
ExtractInsightsCall == InsightCall("insights", ExtractInsights(gdoc))

\* generator._simplify_for_business()
SimplifyForBusinessCall == InsightCall("business", SimplifyForBusiness(gdoc))

ReportNext == KeyMetricsCall \/ ExtractInsightsCall \/ SimplifyForBusinessCall

SpecReport == ReportInit /\ [][ReportNext]_vars

\* One parser instance over every modelled upstream.
DocEnvs ==
    Envs(SeqsUpTo(TableNames, MaxRows), {<< MaxRows, MaxRows >>},
         PowerQueryTexts \ {None}, {None}, RaiseSets)
    \cup
    Envs({DefaultTables}, {<< n, n >> : n \in 0..MaxRows}, PowerQueryTexts,
         MetadataObjects, RaiseSets)

DocInit == NoText /\ NoGenerator /\ NoServer /\ NoGit /\ NoCli /\ \E e \in DocEnvs : Constructed({"p1"}, e)

SpecDoc == DocInit /\ [][Next]_vars

(***************************************************************************)
(* The snapshot files: written by parser.save_metadata and by the          *)
(* generator's _save_metadata (cli init: extract_metadata, then            *)
(* DocumentationGenerator(metadata, output_dir).generate_all()), read back *)
(* by DocumentationGenerator.from_metadata_file (cli docs, cli export).    *)
(***************************************************************************)

\* DocumentationGenerator(parser.extract_metadata(), dir)._save_metadata()
GeneratorSaveMetadata(i) ==
    /\ metadata[i] # None
    /\ snapshot' = Some(JsonDump(Doc(i)))
    /\ UNCHANGED << current_project_path, current_metadata, temp_files, exports, docs,
                    requests, request, response, textVars, genVars, parserVars, gitVars, cliVars >>

\* The files a generator can be loaded from, and what each holds.
SnapshotFiles == {"saved", "snapshot"}
FileContent(i, file) == IF file = "saved" THEN saved[i] ELSE snapshot

\* DocumentationGenerator.from_metadata_file(file, dir): json.load gives the
\* tree the file holds, objects as dicts with str keys and arrays as lists.
FromMetadataFile(i, file) ==
    /\ FileContent(i, file) # None
    /\ gdoc' = FileContent(i, file)[1]
    /\ gattrs' = GeneratorAttrs
    /\ UNCHANGED << score, sources, gcalls, gret, textVars, parserVars, webVars, gitVars, cliVars >>

\* Query texts of other shapes: empty, one query, no query at all.
NoQueryText == << "S", "=", "1" >>

OtherQueryTexts == {Some(<< >>), Some(OneQueryText), Some(NoQueryText)}

SnapshotEnvs ==
    Envs({DefaultTables}, {<< n, n >> : n \in 0..MaxRows}, PowerQueryTexts \cup OtherQueryTexts,
         MetadataObjects, {r \in RaiseSets : r \subseteq {"metadata", "power_query"}})

SnapshotInit == NoText /\ NoGenerator /\ NoServer /\ NoGit /\ NoCli /\ \E e \in SnapshotEnvs : Constructed({"p1"}, e)

SnapshotNext ==
    \/ \E i \in live : ExtractMetadata(i)
    \/ \E i \in live : SaveMetadata(i)
    \/ \E i \in live : GeneratorSaveMetadata(i)
    \/ \E i \in live, file \in SnapshotFiles : FromMetadataFile(i, file)

SpecSnapshot == SnapshotInit /\ [][SnapshotNext]_vars

(***************************************************************************)
(* The counts of one document: get_summary on the parser, and the          *)
(* complexity score of a generator built on the parser's document (cli     *)
(* init: parser.extract_metadata(), DocumentationGenerator(metadata, dir)).*)
(***************************************************************************)

\* DocumentationGenerator(parser.extract_metadata(), output_dir), once the
\* parser holds its document.
GeneratorOf(i) ==
    /\ metadata[i] # None
    /\ gattrs = {}
    /\ gdoc' = Doc(i)
    /\ gattrs' = GeneratorAttrs
    /\ UNCHANGED << score, sources, gcalls, gret, textVars, parserVars, webVars, gitVars,
                    cliVars >>

\* generator._calculate_complexity_score(), on a generator that exists.
GeneratorScore == gattrs # {} /\ ComplexityScoreCall

CountEnvs ==
    Envs({DefaultTables}, {<< n, n >> : n \in 0..MaxRows}, PowerQueryTexts, {None}, RaiseSets)

CountsInit ==
    NoText /\ NoGenerator /\ NoServer /\ NoGit /\ NoCli
    /\ \E e \in CountEnvs : Constructed({"p1"}, e)

CountsNext ==
    \/ \E i \in live : ExtractMetadata(i)
    \/ \E i \in live : GetSummary(i)
    \/ \E i \in live : GeneratorOf(i)
    \/ GeneratorScore

SpecCounts == CountsInit /\ [][CountsNext]_vars

(***************************************************************************)
(* Schemas with rows whose conversion raises in the column extraction.     *)
(***************************************************************************)

\* The rows that raise: none, those of one table, or those of both, met
\* before or after the proper rows of the schema.
BrokenRows ==
    { << >>, << BrokenRow("Sales") >>, << BrokenRow("Customers") >>,
      << BrokenRow("Sales"), BrokenRow("Customers") >> }

ColumnEnvs ==
    { [e EXCEPT !.schema = IF front THEN b \o SchemaRows ELSE SchemaRows \o b] :
        e \in Envs(SeqsUpTo(TableNames, MaxRows), {<< 1, 1 >>}, {None}, {None},
                   {r \in RaiseSets : Cardinality(r) <= 1}),
        b \in BrokenRows, front \in BOOLEAN }

ColumnsInit ==
    NoText /\ NoGenerator /\ NoServer /\ NoGit /\ NoCli
    /\ \E e \in ColumnEnvs : Constructed({"p1"}, e)

SpecColumns == ColumnsInit /\ [][Next]_vars

(***************************************************************************)
(* web/server.py: the request handlers, on the module's two globals and    *)
(* the files of the working directory.  A file name is a sequence of       *)
(* characters.                                                             *)
(***************************************************************************)

MaxRequests == 3

\* s.endswith(p)
EndsWith(s, p) == Len(s) >= Len(p) /\ SubSeq(s, Len(s) - Len(p) + 1, Len(s)) = p

PbixSuffix == << ".", "p", "b", "i", "x" >>

\* file.filename of an upload: missing, empty, or a name.
Filenames ==
    { None, Some(<< >>),
      Some(<< "a" >> \o PbixSuffix),
      Some(PbixSuffix),
      Some(<< "a", ".", "t", "x", "t" >>),
      Some(<< "a", ".", "P", "B", "I", "X" >>),
      Some(<< "p", "b", "i", "x" >>),
      Some(<< "a" >> \o PbixSuffix \o << ".", "t", "x", "t" >>) }

\* Mutant: the name is tested with '.pbix' in filename.
IsPbixUploadContains(filename) ==
    filename # None /\ filename # Some(<< >>) /\ Contains(filename[1], PbixSuffix)

\* The negation of the test of line 73.
IsPbixUpload(filename) ==
    filename # None /\ filename # Some(<< >>) /\ EndsWith(filename[1], PbixSuffix)

\* Path.cwd() / ".pbnj" / "temp"
TempDir == << ".", "p", "b", "n", "j", "/", "t", "e", "m", "p", "/" >>

\* parser.extract_metadata() on the uploaded file.
UploadedDocument(m, name) ==
    [Document(m) EXCEPT !.file_info =
        [name |-> name, path |-> TempDir \o name, size_bytes |-> m.size_bytes]]

\* ProjectInfo(...) of lines 105-112.
ProjectInfo(doc) ==
    [name               |-> doc.file_info.name,
     file_size_mb       |-> FileSizeMb(doc.file_info.size_bytes),
     table_count        |-> Len(Get(doc, "tables", << >>)),
     measure_count      |-> Len(Get(doc, "measures", << >>)),
     relationship_count |-> Len(Get(doc, "relationships", << >>)),
     power_query_count  |-> Len(Get(Get(doc, "power_query", EmptyDict), "queries", << >>))]

Response(status, body) == [status |-> status, body |-> body]

\* raise HTTPException(status_code, detail)
HttpError(status, detail) == [status |-> status, body |-> [detail |-> detail]]

\* An exception no handler catches: the server answers 500.
Unhandled(error) == [status |-> 500, body |-> [unhandled |-> error]]

\* The bookkeeping of one request.
Requested(route, arg) ==
    /\ requests < MaxRequests
    /\ requests' = requests + 1
    /\ request' = [route |-> route, arg |-> arg]

\* Where the try block of upload_pbix fails: writing the temp file, parsing
\* (the loader or the stat raises), writing the snapshot, generating the
\* documentation; or nowhere.
UploadStages == {"save", "parse", "snapshot", "generate", "none"}

\* What a write that failed leaves of a file: the old content when the open
\* failed, a truncated file when the dump failed.
Truncated == [truncated |-> TRUE]

\* POST /api/upload
UploadPbix(filename, fails) ==
    /\ Requested("upload", filename)
    /\ IF ~IsPbixUpload(filename)
       THEN /\ response' = HttpError(400, "File must be a .pbix file")
            /\ UNCHANGED << snapshot, current_project_path, current_metadata, temp_files,
                            docs >>
       ELSE LET name == filename[1]
                doc == UploadedDocument(env, name)
                parsed == fails \notin {"save", "parse"}
            IN
            /\ temp_files' = (CASE fails = "save" -> temp_files
                                [] fails = "none" -> temp_files \ {name}
                                [] OTHER -> temp_files \cup {name})
            /\ current_project_path' = IF parsed THEN Some("cwd") ELSE current_project_path
            /\ current_metadata' = IF parsed THEN Some(doc) ELSE current_metadata
            /\ \/ ~parsed /\ snapshot' = snapshot
               \/ fails = "snapshot" /\ snapshot' \in {snapshot, Some(Truncated)}
               \/ fails \in {"generate", "none"} /\ snapshot' = Some(JsonDump(doc))
            /\ \/ fails = "none" /\ docs' = TRUE
               \/ fails = "generate" /\ docs' \in {docs, TRUE}
               \/ fails \notin {"none", "generate"} /\ docs' = docs
            /\ response' = IF fails = "none"
                           THEN Response(200, [success |-> TRUE,
                                               message |-> "PBIX file processed successfully",
                                               project_info |-> ProjectInfo(doc)])
                           ELSE HttpError(500, "Error processing PBIX file: " \o fails)
    /\ UNCHANGED << exports, textVars, genVars, parserVars, gitVars, cliVars >>

\* GET /api/project/info
GetProjectInfo ==
    /\ Requested("info", None)
    /\ response' = IF current_metadata = None THEN HttpError(404, "No project loaded")
                   ELSE LET info == ProjectInfo(current_metadata[1]) IN
                        Response(200, [file_info |-> current_metadata[1].file_info,
                                       summary |-> [table_count |-> info.table_count,
                                                    measure_count |-> info.measure_count,
                                                    relationship_count |-> info.relationship_count,
                                                    power_query_count |-> info.power_query_count]])
    /\ UNCHANGED << snapshot, current_project_path, current_metadata, temp_files, exports,
                    docs, textVars, genVars, parserVars, gitVars, cliVars >>

\* GET /api/project/metadata.  The function assigns current_metadata (line
\* 152) and does not declare it global, so the name is a local variable of
\* the function: it is unbound when line 147 reads it, and the read raises
\* UnboundLocalError whatever the global holds and whatever the file holds.
GetMetadata ==
    /\ Requested("metadata", None)
    /\ response' = Unhandled("UnboundLocalError")
    /\ UNCHANGED << snapshot, current_project_path, current_metadata, temp_files, exports,
                    docs, textVars, genVars, parserVars, gitVars, cliVars >>

Formats == {"json", "markdown", "pdf", "JSON", ""}

\* Mutant: the format is checked before the project.
ExportOutcomeFormatFirst(loaded, format) ==
    IF format \notin {"json", "markdown"} THEN 400
    ELSE IF ~loaded THEN 404
    ELSE 200

\* The two checks of export_documentation (lines 190-194), in their order;
\* 200 stands for reaching the try block.
ExportOutcome(loaded, format) ==
    IF ~loaded THEN 404
    ELSE IF format \notin {"json", "markdown"} THEN 400
    ELSE 200

\* GET /api/export/{format}
ExportDocumentation(format, fails) ==
    /\ Requested("export", format)
    /\ LET out == ExportOutcome(current_metadata # None, format) IN
       \/ /\ out = 404
          /\ response' = HttpError(404, "No project loaded")
          /\ exports' = exports
       \/ /\ out = 400
          /\ response' = HttpError(400, "Unsupported export format")
          /\ exports' = exports
       \/ /\ out = 200 /\ fails
          /\ response' = HttpError(500, "Export failed: write failed")
          /\ exports' \in {exports, exports \cup {format}}
       \/ /\ out = 200 /\ ~fails
          /\ response' = Response(200, [path |-> "export." \o format,
                                        filename |-> "pbnj_export." \o format])
          /\ exports' = exports \cup {format}
    /\ UNCHANGED << snapshot, current_project_path, current_metadata, temp_files, docs,
                    textVars, genVars, parserVars, gitVars, cliVars >>

ServerEnvs ==
    Envs({DefaultTables}, {<< 1, 1 >>}, PowerQueryTexts, {None}, {{}, {"dax_measures"}})

\* The server module as imported, in a working directory that holds a
\* project (written by pbnj init) or none.
ServerInit ==
    /\ NoText /\ NoGenerator /\ NoGit /\ NoCli
    /\ \E e \in ServerEnvs :
          /\ Constructed({}, e)
          /\ snapshot \in {None, Some(JsonDump(Document(e)))}
    /\ docs = (snapshot # None)
    /\ current_project_path = None
    /\ current_metadata = None
    /\ temp_files = {}
    /\ exports = {}
    /\ requests = 0
    /\ request = [route |-> "none", arg |-> None]
    /\ response = None

ServerNext ==
    \/ \E filename \in Filenames, fails \in UploadStages : UploadPbix(filename, fails)
    \/ GetProjectInfo
    \/ GetMetadata
    \/ \E format \in Formats, fails \in BOOLEAN : ExportDocumentation(format, fails)

SpecServer == ServerInit /\ [][ServerNext]_vars


(***************************************************************************)
(* core/git_integration.py: one GitHelper on the directory repo_path.  A   *)
(* commit is its message and the files it records; .gitignore content is   *)
(* the set of its patterns.                                                *)
(***************************************************************************)

\* The files of the working tree, and those a "*.pbix" pattern matches.
Files == {"README.md", "notes.txt", "report.pbix"}
PbixFiles == {"report.pbix"}

\* Patterns of the .gitignore that init_repo writes (lines 37-82), and of one
\* that the user wrote.
DefaultGitignore == {"__pycache__/", ".venv", "*.pbix", ".pbnj/cache/"}
CustomGitignore == {"*.log"}

\* The files that git leaves out of "add -A" under a .gitignore.
Ignored(file) == IF file # None /\ "*.pbix" \in file[1] THEN PbixFiles ELSE {}

Commit(message, files) == [message |-> message, files |-> files]

\* git.Repo(path): GitPython raises NoSuchPathError (a GitError and an
\* OSError, not an InvalidGitRepositoryError) for a path that does not exist
\* and InvalidGitRepositoryError for a directory that holds no repository.
OpenRepo(kind) ==
    CASE kind = "missing" -> Raised("NoSuchPathError")
      [] kind = "directory" -> Raised("InvalidGitRepositoryError")
      [] OTHER -> Returned("repo", kind)

\* Mutant: no path is taken for a repository.
IsGitRepoNever(kind) ==
    LET opened == OpenRepo(kind) IN
    IF opened.kind = "raise" /\ opened.value # "InvalidGitRepositoryError" THEN opened
    ELSE Returned("bool", FALSE)

\* is_git_repo (lines 19-25): the only exception caught is
\* InvalidGitRepositoryError.
IsGitRepo(kind) ==
    LET opened == OpenRepo(kind) IN
    IF opened.kind # "raise" THEN Returned("bool", TRUE)
    ELSE IF opened.value = "InvalidGitRepositoryError" THEN Returned("bool", FALSE)
    ELSE opened

\* get_repo (lines 89-93): self.repo, opened on first use.
GetRepo(set, kind) == IF set THEN Returned("repo", kind) ELSE OpenRepo(kind)

\* repo.git.add(A=True): what the index holds afterwards.
StageAll(staged, changed, ignored) == staged \cup (changed \ ignored)

\* Mutant: the repository is always taken for dirty.
IsDirtyAlways(staged) == TRUE

\* repo.is_dirty() once everything is staged: the index differs from HEAD.
IsDirty(staged) == staged # {}

repoVars == << worktree, gitignore, commits, index, changes >>

\* The bookkeeping of one call on the helper.
GitCalled(op, arg) ==
    /\ gitcalls < MaxCalls
    /\ gitcalls' = gitcalls + 1
    /\ gitreq' = [op |-> op, arg |-> arg]

\* helper.is_git_repo()
IsGitRepoCall ==
    /\ GitCalled("is_git_repo", None)
    /\ gitret' = IsGitRepo(worktree)
    /\ UNCHANGED << repoVars, helper_repo, textVars, genVars, webVars, parserVars, cliVars >>

\* helper.init_repo()
InitRepo ==
    /\ GitCalled("init_repo", None)
    /\ LET is_repo == IsGitRepo(worktree) IN
       IF is_repo.kind = "raise"
       THEN gitret' = is_repo /\ UNCHANGED << repoVars, helper_repo >>
       ELSE IF is_repo.value
       THEN gitret' = Returned("none", None) /\ UNCHANGED << repoVars, helper_repo >>
       ELSE /\ worktree' = "repository"
            /\ helper_repo' = TRUE
            /\ gitignore' = IF gitignore = None THEN Some(DefaultGitignore) ELSE gitignore
            /\ commits' = Append(commits, Commit("Initial commit - Add .gitignore",
                                                 index \cup {".gitignore"}))
            /\ index' = {}
            /\ changes' = changes
            /\ gitret' = Returned("none", None)
    /\ UNCHANGED << textVars, genVars, webVars, parserVars, cliVars >>

\* helper.add_files(files)
AddFiles(files) ==
    /\ GitCalled("add_files", files)
    /\ LET repo == GetRepo(helper_repo, worktree) IN
       IF repo.kind = "raise"
       THEN gitret' = repo /\ UNCHANGED << index, changes, helper_repo >>
       ELSE /\ helper_repo' = TRUE
            /\ index' = index \cup files
            /\ changes' = changes \ files
            /\ gitret' = Returned("none", None)
    /\ UNCHANGED << worktree, gitignore, commits, textVars, genVars, webVars, parserVars,
                    cliVars >>

\* helper.commit_changes(message)
CommitChanges(message) ==
    /\ GitCalled("commit_changes", message)
    /\ LET repo == GetRepo(helper_repo, worktree) IN
       IF repo.kind = "raise"
       THEN gitret' = repo /\ UNCHANGED << commits, index, changes, helper_repo >>
       ELSE LET staged == StageAll(index, changes, Ignored(gitignore)) IN
            /\ helper_repo' = TRUE
            /\ changes' = changes \ staged
            /\ IF IsDirty(staged)
               THEN commits' = Append(commits, Commit(message, staged)) /\ index' = {}
               ELSE commits' = commits /\ index' = staged
            /\ gitret' = Returned("none", None)
    /\ UNCHANGED << worktree, gitignore, textVars, genVars, webVars, parserVars, cliVars >>

Messages == {"", "Update PBNJ documentation"}

\* What the helper can find at repo_path: nothing, a directory of files, or
\* a repository, new or with one commit, whose working tree has changes.
GitInit ==
    /\ NoText /\ NoGenerator /\ NoServer /\ NoCli /\ NoParsers
    /\ worktree \in {"missing", "directory", "repository"}
    /\ gitignore \in IF worktree = "missing" THEN {None}
                     ELSE IF worktree = "directory" THEN {None, Some(CustomGitignore)}
                     ELSE {None, Some(CustomGitignore), Some(DefaultGitignore)}
    /\ commits \in IF worktree = "repository"
                   THEN {<< >>, << Commit("first", {"README.md"}) >>}
                   ELSE {<< >>}
    /\ changes \in IF worktree = "missing" THEN {{}} ELSE SUBSET Files
    /\ index = {}
    /\ helper_repo = FALSE
    /\ gitcalls = 0
    /\ gitreq = [op |-> "none", arg |-> None]
    /\ gitret = Returned("none", None)

GitNext ==
    \/ IsGitRepoCall
    \/ InitRepo
    \/ \E files \in SUBSET (changes \ Ignored(gitignore)) : files # {} /\ AddFiles(files)
    \/ \E message \in Messages : CommitChanges(message)

SpecGit == GitInit /\ [][GitNext]_vars


(***************************************************************************)
(* cli/main.py: the commands docs, serve and export, each one run of the   *)
(* program in the working directory.  A console line is the text that is   *)
(* printed, without its markup.                                            *)
(***************************************************************************)

NoProjectLine == "Error: No PBNJ project found. Run 'pbnj init' first."

\* Mutant: every command looks for the directory only.
ProjectFoundDirOnly(name, dir, file) == dir

\* The project test of each command: serve looks for the directory .pbnj
\* (line 120), docs and export for the file .pbnj/metadata.json (92, 144).
ProjectFound(name, dir, file) == IF name = "serve" THEN dir ELSE file # None

\* DocumentationGenerator.from_metadata_file as the commands use it: open()
\* raises for a file that does not exist.
LoadFile(file) ==
    IF file = None THEN Raised("FileNotFoundError") ELSE Returned("metadata", file[1])

\* The files that generate_markdown and generate_json write; generate_html
\* writes none.
ReadmeFile == "README.md"
ComponentFiles == {"docs/tables.md", "docs/measures.md", "docs/power_query.md",
                   "docs/relationships.md"}
DocsFiles(format) ==
    CASE format = "markdown" -> {ReadmeFile} \cup ComponentFiles
      [] format = "json" -> {"docs/metadata.json"}
      [] OTHER -> {}

DocsFormats == {"markdown", "html", "json"}
ExportFormats == {"pdf", "html", "json", "markdown"}

\* The bookkeeping of one run.
CliRun(name, format) ==
    /\ runs < MaxCalls
    /\ runs' = runs + 1
    /\ command' = [name |-> name, format |-> format]

\* The run ends having printed lines, with the exit code.  sys.exit(1) inside
\* the try block raises SystemExit, which "except Exception" does not catch.
Exit(lines, code) == console' = lines /\ exit_code' = Some(code)

\* pbnj docs --format <format>
CliDocs(format, fails) ==
    /\ CliRun("docs", Some(format))
    /\ fails => format # "html"
    /\ LET head == << "Generating documentation in cwd" >>
           loaded == LoadFile(snapshot)
       IN
       IF ~ProjectFound("docs", pbnj_dir, snapshot)
       THEN Exit(Append(head, NoProjectLine), 1) /\ UNCHANGED << gdoc, gattrs, generated >>
       ELSE IF loaded.kind = "raise"
       THEN /\ Exit(Append(head, "Error: " \o loaded.value), 1)
            /\ UNCHANGED << gdoc, gattrs, generated >>
       ELSE /\ gdoc' = loaded.value
            /\ gattrs' = GeneratorAttrs
            /\ IF fails
               THEN /\ generated' \in {generated, generated \cup (DocsFiles(format) \cap {ReadmeFile})}
                    /\ Exit(Append(head, "Error: write failed"), 1)
               ELSE /\ generated' = generated \cup DocsFiles(format)
                    /\ Exit(Append(head, "Documentation generated in " \o format \o " format"), 0)
    /\ UNCHANGED << pbnj_dir, serving, score, sources, gcalls, gret, textVars, webVars,
                    parserVars, gitVars >>

\* How start_server ends: Ctrl+C, an error, or a return.
ServerEnds == {"KeyboardInterrupt", "Exception", "return"}

\* pbnj serve
CliServe(ends) ==
    /\ CliRun("serve", None)
    /\ LET head == << "Starting PBNJ web interface at http://127.0.0.1:8000",
                      "Press Ctrl+C to stop" >>
       IN
       IF ~ProjectFound("serve", pbnj_dir, snapshot)
       THEN Exit(<< NoProjectLine >>, 1) /\ serving' = serving
       ELSE /\ serving' = TRUE
            /\ CASE ends = "KeyboardInterrupt" -> Exit(Append(head, "Server stopped"), 0)
                 [] ends = "Exception" -> Exit(Append(head, "Error: server failed"), 1)
                 [] OTHER -> Exit(head, 0)
    /\ UNCHANGED << pbnj_dir, generated, textVars, genVars, webVars, parserVars, gitVars >>

\* pbnj export --format <format>
CliExport(format, fails) ==
    /\ CliRun("export", Some(format))
    /\ fails => format \in {"json", "markdown"}
    /\ LET head == << "Exporting to " \o format \o " format: pbnj_export." \o format >>
           loaded == LoadFile(snapshot)
       IN
       IF ~ProjectFound("export", pbnj_dir, snapshot)
       THEN Exit(<< NoProjectLine >>, 1) /\ UNCHANGED << gdoc, gattrs, generated >>
       ELSE IF loaded.kind = "raise"
       THEN /\ Exit(Append(head, "Error: " \o loaded.value), 1)
            /\ UNCHANGED << gdoc, gattrs, generated >>
       ELSE /\ gdoc' = loaded.value
            /\ gattrs' = GeneratorAttrs
            /\ IF format \notin {"json", "markdown"}
               THEN /\ generated' = generated
                    /\ Exit(Append(head, "Error: Unsupported export format: " \o format), 1)
               ELSE IF fails
               THEN /\ generated' \in {generated, generated \cup {"pbnj_export." \o format}}
                    /\ Exit(Append(head, "Error: write failed"), 1)
               ELSE /\ generated' = generated \cup {"pbnj_export." \o format}
                    /\ Exit(Append(head, "Exported to pbnj_export." \o format), 0)
    /\ UNCHANGED << pbnj_dir, serving, score, sources, gcalls, gret, textVars, webVars,
                    parserVars, gitVars >>

\* The working directory of the commands: without .pbnj, with an empty
\* .pbnj, or with the project that pbnj init wrote.
CliInit ==
    /\ NoText /\ NoGenerator /\ NoGit
    /\ pbnj_dir \in BOOLEAN
    /\ \E e \in ServerEnvs :
          /\ Constructed({}, e)
          /\ snapshot \in IF pbnj_dir THEN {None, Some(JsonDump(Document(e)))} ELSE {None}
    /\ docs = (snapshot # None)
    /\ current_project_path = None
    /\ current_metadata = None
    /\ temp_files = {}
    /\ exports = {}
    /\ requests = 0
    /\ request = [route |-> "none", arg |-> None]
    /\ response = None
    /\ console = << >>
    /\ exit_code = None
    /\ serving = FALSE
    /\ generated = {}
    /\ command = [name |-> "none", format |-> None]
    /\ runs = 0

CliNext ==
    \/ \E format \in DocsFormats, fails \in BOOLEAN : CliDocs(format, fails)
    \/ \E ends \in ServerEnds : CliServe(ends)
    \/ \E format \in ExportFormats, fails \in BOOLEAN : CliExport(format, fails)

SpecCli == CliInit /\ [][CliNext]_vars


(***************************************************************************)
(* Properties.                                                             *)
(***************************************************************************)


\* The facets that read the upstream, and the accessors each one reads.
Facets == {"tables", "relationships", "measures", "calculated_columns",
           "power_query", "metadata"}
SequenceFacets == {"tables", "relationships", "measures", "calculated_columns",
                   "parameters"}
MappingFacets == {"power_query", "metadata"}
Slots == {"file_info", "parameters"} \cup Facets

AccessorsOf(F) ==
    CASE F = "tables" -> {"tables", "schema"}
      [] F = "relationships" -> {"relationships"}
      [] F = "measures" -> {"dax_measures"}
      [] F = "calculated_columns" -> {"dax_columns"}
      [] F = "power_query" -> {"power_query"}
      [] F = "metadata" -> {"metadata"}
      [] OTHER -> {}

FacetRaises(F, m) == AccessorsOf(F) \cap m.raises # {}

\* The upstream m with no accessor raising.
Healthy(m) == [m EXCEPT !.raises = {}]

\* A call has just been made on instance i.
CallOn(i) == calls'[i] = calls[i] + 1

\* C1: once an instance holds a document, every later call (extract_metadata,
\* get_summary, save_metadata) works on that very document object and touches
\* neither the loader, nor the stat, nor any accessor; and when no call before
\* the first document raised, the loader, the stat and each accessor were
\* used exactly once (the loader succeeds exactly once in any case).
C1_Step ==
    \A i \in live :
        metadata[i] # None =>
            /\ metadata'[i] = metadata[i]
            /\ model'[i] = model[i]
            /\ loaderCalls'[i] = loaderCalls[i]
            /\ statCalls'[i] = statCalls[i]
            /\ reads'[i] = reads[i]
            /\ built'[i] = built[i]
            /\ CallOn(i) =>
                  /\ ret'[i].kind # "raise"
                  /\ ret'[i].kind = "document" => ret'[i].value = metadata[i][1]
                  /\ ret'[i].kind = "summary" => ret'[i].value = Summary(Doc(i))
                  /\ ret'[i].kind = "none" => saved'[i] = Some(JsonDump(Doc(i)))

C1_Once ==
    \A i \in live :
        metadata[i] # None =>
            /\ loaderCalls[i] = loaderRaised[i] + 1
            /\ built[i] = 1
            /\ raised[i] = 0 =>
                  /\ loaderCalls[i] = 1
                  /\ statCalls[i] = 1
                  /\ \A a \in Accessors : reads[i][a] <= 1
                  /\ \A a \in Accessors \ {"schema"} : reads[i][a] = 1

C1_CachedDocument == [](C1_Once) /\ [][C1_Step]_vars

C1_Witness ==
    \E i \in live :
        /\ calls[i] >= 3 /\ raised[i] = 0
        /\ ret[i] = Returned("document", metadata[i][1])
        /\ saved[i] # None
        /\ loaderCalls[i] = 1

\* C2: a document has all eight slots; the slot of every facet one of whose
\* accessors raised holds the error placeholder, and every other slot holds
\* what it holds when nothing raises.
IsPlaceholder(F, slot) ==
    IF F \in MappingFacets THEN "error" \in DOMAIN slot
    ELSE Len(slot) = 1 /\ "error" \in DOMAIN slot[1]

C2_FacetIsolation ==
    \A i \in live :
        metadata[i] # None =>
            /\ DOMAIN Doc(i) = Slots
            /\ \A F \in Facets :
                  IF FacetRaises(F, Handle(i))
                  THEN IsPlaceholder(F, Doc(i)[F])
                  ELSE Doc(i)[F] = Document(Healthy(Handle(i)))[F]
            /\ Doc(i).parameters = << >>
            /\ Doc(i).file_info = [name |-> PbixName, path |-> PbixPath,
                                   size_bytes |-> env.size_bytes]

C2_Witness ==
    /\ metadata["p1"] # None
    /\ Handle("p1").raises = {"dax_measures"}
    /\ ret["p1"].kind = "document"
    /\ Doc("p1").measures = << [error |-> "Failed to extract measures: access failed"] >>
    /\ Len(Doc("p1").tables) = 2 /\ "name" \in DOMAIN Doc("p1").tables[1]
    /\ Len(Doc("p1").relationships) = 2

\* C3: a failed sequence-typed facet is exactly the one-element sequence
\* << [error |-> "Failed to extract <facet>: <cause>"] >>, a failed
\* mapping-typed facet is a mapping with the key error, and no call raises
\* because of a facet: a call raises only on a loader or a stat failure, and
\* then no extractor has run.
FacetLabel(F) == IF F = "calculated_columns" THEN "calculated columns" ELSE F

C3_Placeholders ==
    \A i \in live :
        /\ metadata[i] # None =>
              /\ \A F \in SequenceFacets :
                    FacetRaises(F, Handle(i)) =>
                        Doc(i)[F] = << [error |-> "Failed to extract " \o FacetLabel(F)
                                                  \o ": " \o Handle(i).cause] >>
              /\ \A F \in MappingFacets :
                    FacetRaises(F, Handle(i)) => "error" \in DOMAIN Doc(i)[F]
        /\ ret[i].kind = "raise" =>
              /\ ret[i].value \in {"LoadError", "StatError"}
              /\ built[i] = 0
        /\ built[i] > 0 => metadata[i] # None

C3_Witness ==
    /\ metadata["p1"] # None
    /\ Handle("p1").raises = {"schema", "metadata"}
    /\ Doc("p1").tables = << [error |-> "Failed to extract tables: access failed"] >>
    /\ DOMAIN Doc("p1").metadata = {"error"}
    /\ ret["p1"].kind = "summary"

\* C4: a call in which the loader raises hands that error to its caller,
\* runs no stat and no extractor, and leaves the instance without handle,
\* without document and without snapshot.
C4_Step ==
    \A i \in live :
        loaderRaised'[i] > loaderRaised[i] =>
            /\ ret'[i] = Raised("LoadError")
            /\ model'[i] = None
            /\ metadata'[i] = None
            /\ statCalls'[i] = statCalls[i]
            /\ reads'[i] = reads[i]
            /\ built'[i] = built[i]
            /\ saved'[i] = saved[i]

C4_LoadFailurePropagates == [][C4_Step]_vars

C4_Witness ==
    \E i \in live :
        /\ loaderRaised[i] >= 2
        /\ ret[i] = Raised("LoadError")
        /\ metadata[i] = None /\ statCalls[i] = 0

\* C5: a call in which the stat raises hands that error to its caller: no
\* extractor runs, no document is assembled, returned, cached or saved.
C5_Step ==
    \A i \in live :
        statRaised'[i] > statRaised[i] =>
            /\ ret'[i] = Raised("StatError")
            /\ metadata'[i] = None
            /\ reads'[i] = reads[i]
            /\ built'[i] = built[i]
            /\ saved'[i] = saved[i]

C5_StatFailurePropagates == [][C5_Step]_vars

C5_Witness ==
    \E i \in live :
        /\ statRaised[i] >= 1
        /\ ret[i] = Raised("StatError")
        /\ model[i] # None /\ metadata[i] = None

LetPositions(t) == {p \in 1..(Len(t) - 2) : << t[p], t[p + 1], t[p + 2] >> = << "l", "e", "t" >>}

\* The k-th smallest element of the set of positions P.
KthOf(P, k) == CHOOSE p \in P : Cardinality({q \in P : q < p}) = k - 1

\* C7: there is one query per occurrence of let; the k-th is named Query_k
\* and its code is the text from the k-th let up to the next let (or the
\* end), so it starts with let; the text before the first let is in no query.
C7_QueriesPerLet ==
    queries # None =>
        LET qs == queries[1]
            P  == LetPositions(text)
            n  == Cardinality(P)
            stop(k) == IF k = n THEN Len(text) ELSE KthOf(P, k + 1) - 1
        IN
        /\ Len(qs) = n
        /\ \A k \in 1..n :
              /\ qs[k].name = "Query_" \o ToString(k)
              /\ k = 1 => qs[k].name = "Query_1"
              /\ k = 2 => qs[k].name = "Query_2"
              /\ qs[k].code = SubSeq(text, KthOf(P, k), stop(k))
              /\ SubSeq(qs[k].code, 1, 3) = << "l", "e", "t" >>

C7_Witness ==
    /\ queries # None
    /\ Len(queries[1]) = 2
    /\ text = << "b", "l", "e", "t", "a", "=", "1", "l", "e", "t" >>
    /\ queries[1][1].code = << "l", "e", "t", "a", "=", "1" >>
    /\ queries[1][2].name = "Query_2"

\* The physical lines of t: the stretches between line breaks.
Breaks(t) == {p \in 1..Len(t) : t[p] = "\n"}

LineAt(t, k) ==
    LET B == Breaks(t)
        from == IF k = 1 THEN 1 ELSE KthOf(B, k - 1) + 1
        to   == IF k = Cardinality(B) + 1 THEN Len(t) ELSE KthOf(B, k) - 1
    IN SubSeq(t, from, to)

\* The line l without its leading and trailing whitespace.
Trimmed(l) ==
    LET solid == {p \in 1..Len(l) : l[p] \notin {" ", "\t", "\n", "\r"}} IN
    IF solid = {} THEN << >>
    ELSE SubSeq(l, CHOOSE p \in solid : \A q \in solid : p <= q,
                   CHOOSE p \in solid : \A q \in solid : p >= q)

IsStepLine(l) ==
    /\ \E p \in 1..Len(l) : l[p] = "="
    /\ ~(Len(l) >= 2 /\ l[1] = "/" /\ l[2] = "/")

\* C8: the steps are the trimmed physical lines that contain = and do not
\* start with //, one per such line, in the order of the lines.
C8_StepsAreQualifyingLines ==
    steps # None =>
        LET st == steps[1]
            Q  == {k \in 1..(Cardinality(Breaks(text)) + 1) :
                      IsStepLine(Trimmed(LineAt(text, k)))}
        IN
        /\ Len(st) = Cardinality(Q)
        /\ \A k \in Q : st[Cardinality({j \in Q : j < k}) + 1] = Trimmed(LineAt(text, k))

C8_Witness ==
    /\ steps # None
    /\ text = << "/", "/", "b", "=", "2", "\n", "a", "=", "1", "\n", "=" >>
    /\ steps[1] = << << "a", "=", "1" >>, << "=" >> >>


\* The number of entries under key in the document md, 0 when md has no
\* such key.
CountOf(md, key) == IF key \in DOMAIN md THEN Len(md[key]) ELSE 0

QueryCountOf(md) ==
    IF "power_query" \in DOMAIN md THEN CountOf(md.power_query, "queries") ELSE 0

\* C9: the complexity score is 2 * tables + 3 * measures + relationships
\* + 2 * queries, never negative; for 2 tables, 2 measures, 1 relationship
\* and 1 query it is 13.
C9_ComplexityScore ==
    score # None =>
        LET nt == CountOf(gdoc, "tables")
            nm == CountOf(gdoc, "measures")
            nr == CountOf(gdoc, "relationships")
            nq == QueryCountOf(gdoc)
        IN
        /\ score[1] = 2 * nt + 3 * nm + nr + 2 * nq
        /\ score[1] >= 0
        /\ (nt = 2 /\ nm = 2 /\ nr = 1 /\ nq = 1) => score[1] = 13

C9_Witness ==
    /\ score = Some(13)
    /\ Len(gdoc.tables) = 2 /\ Len(gdoc.measures) = 2
    /\ Len(gdoc.relationships) = 1 /\ Len(gdoc.power_query.queries) = 1
    /\ "name" \in DOMAIN gdoc.tables[1]

\* The word w occurs in the text t.
Occurs(w, t) ==
    \E p \in 1..(Len(t) - Len(w) + 1) : \A j \in 1..Len(w) : t[p + j - 1] = w[j]

HasRawCode(md) == "power_query" \in DOMAIN md /\ "raw_code" \in DOMAIN md.power_query

SourceRank(label) ==
    CASE label = "Excel" -> 1 [] label = "SQL Server" -> 2 [] label = "SharePoint" -> 3
      [] OTHER -> 0

\* C10: the data sources hold Excel, SQL Server, SharePoint exactly when the
\* raw text holds Excel, SQL, SharePoint; no label twice; always in that
\* order; a text whose only source word is SharePoint gives << SharePoint >>;
\* without raw text the result is empty.
C10_DataSources ==
    sources # None =>
        LET s == sources[1] IN
        IF ~HasRawCode(gdoc) THEN s = << >>
        ELSE LET raw == gdoc.power_query.raw_code
                 has(label) == \E k \in 1..Len(s) : s[k] = label
             IN
             /\ has("Excel") <=> Occurs(<< "E", "x", "c", "e", "l" >>, raw)
             /\ has("SQL Server") <=> Occurs(<< "S", "Q", "L" >>, raw)
             /\ has("SharePoint")
                   <=> Occurs(<< "S", "h", "a", "r", "e", "P", "o", "i", "n", "t" >>, raw)
             /\ \A k \in 1..Len(s) : SourceRank(s[k]) # 0
             /\ \A j, k \in 1..Len(s) : j < k => SourceRank(s[j]) < SourceRank(s[k])
             /\ (/\ Occurs(<< "S", "h", "a", "r", "e", "P", "o", "i", "n", "t" >>, raw)
                 /\ ~Occurs(<< "E", "x", "c", "e", "l" >>, raw)
                 /\ ~Occurs(<< "S", "Q", "L" >>, raw)) => s = << "SharePoint" >>

C10_Witness ==
    /\ sources = Some(<< "SharePoint" >>)
    /\ HasRawCode(gdoc)
    /\ gdoc.power_query.raw_code
          = << "s", "q", "l", "E", "x", "S", "h", "a", "r", "e", "P", "o", "i", "n", "t" >>

\* C11: key_metrics holds the names of the proper entries (mappings with a
\* name) among the first 5 entries of the measures, in the order of the
\* document: never more than 5 names, fewer when fewer measures exist or when
\* some of the first 5 entries are malformed, and nothing from a sixth entry on.
C11_KeyMetrics ==
    gret.kind = "key_metrics" =>
        LET v == gret.value
            M == IF "measures" \in DOMAIN gdoc THEN gdoc.measures ELSE << >>
            P == {k \in 1..Len(M) :
                    k <= 5 /\ "nondict" \notin DOMAIN M[k] /\ "name" \in DOMAIN M[k]}
        IN
        /\ Len(v) = Cardinality(P)
        /\ Len(v) <= 5
        /\ \A j \in 1..Len(v) : v[j] = M[KthOf(P, j)].name

C11_Witness ==
    /\ gret.kind = "key_metrics"
    /\ gret.value = << "Measure_1", "Measure_3", "Measure_5" >>
    /\ "measures" \in DOMAIN gdoc
    /\ Len(gdoc.measures) = 6
    /\ "nondict" \in DOMAIN gdoc.measures[2]
    /\ "error" \in DOMAIN gdoc.measures[4]
    /\ "name" \in DOMAIN gdoc.measures[6]

\* C12: a document of extract_metadata written to a snapshot file (by
\* save_metadata or by _save_metadata) and read back by from_metadata_file
\* is equal to the original document.  The code does not keep this: json.dump
\* writes the row indices of the model metadata, which are ints, as strings.
C12_RoundTrip ==
    (gattrs # {} /\ metadata["p1"] # None) => gdoc = Doc("p1")

\* C13: the power_query slot is the error mapping "Failed to extract Power
\* Query: <cause>" exactly when reading the text raises; otherwise it has no
\* error key, parameters and functions are empty, and either the text is
\* absent and there are no queries and no raw_code, or the text is present
\* (empty or not), raw_code is that text and there is one query per let of
\* the text, the k-th running from the k-th let to the next.
C13_PowerQueryFacet ==
    \A i \in live :
        metadata[i] # None =>
            LET pq == Doc(i).power_query
                up == Handle(i)
            IN
            IF "power_query" \in up.raises
            THEN pq = [error |-> "Failed to extract Power Query: " \o up.cause]
            ELSE /\ "error" \notin DOMAIN pq
                 /\ pq.parameters = << >> /\ pq.functions = << >>
                 /\ IF up.power_query = None
                    THEN /\ DOMAIN pq = {"queries", "parameters", "functions"}
                         /\ pq.queries = << >>
                    ELSE LET t == up.power_query[1]
                             P == LetPositions(t)
                         IN
                         /\ DOMAIN pq = {"queries", "parameters", "functions", "raw_code"}
                         /\ pq.raw_code = t
                         /\ Len(pq.queries) = Cardinality(P)
                         /\ \A k \in 1..Len(pq.queries) :
                               pq.queries[k].code
                                  = SubSeq(t, KthOf(P, k),
                                           IF k < Cardinality(P) THEN KthOf(P, k + 1) - 1
                                           ELSE Len(t))

C13_Witness ==
    /\ metadata["p1"] # None
    /\ env.power_query = Some(TwoQueryText)
    /\ "power_query" \notin env.raises
    /\ Doc("p1").power_query.raw_code = TwoQueryText
    /\ Len(Doc("p1").power_query.queries) = 2
    /\ Doc("p1").power_query.queries[2].code
          = << "l", "e", "t", " ", "T", "=", "S", "Q", "L" >>

\* C14: in every document, every column of every table has is_key = FALSE
\* and is_nullable = TRUE (the schema rows carry no such flags), whatever
\* the column's name or data type and whether or not a relationship of the
\* same document points at it.
C14_ConservativeFlags ==
    \A i \in live :
        (metadata[i] # None /\ ~FacetRaises("tables", Handle(i))) =>
            \A t \in 1..Len(Doc(i).tables) :
                \A c \in 1..Len(Doc(i).tables[t].columns) :
                    /\ Doc(i).tables[t].columns[c].is_key = FALSE
                    /\ Doc(i).tables[t].columns[c].is_nullable = TRUE

C14_Witness ==
    /\ metadata["p1"] # None
    /\ env.raises = {}
    /\ Len(Doc("p1").tables) = 2 /\ Len(Doc("p1").relationships) >= 1
    /\ Doc("p1").tables[2].name = "Customers"
    /\ Doc("p1").tables[2].columns
          = << [name |-> "CustomerID", data_type |-> "int64", is_key |-> FALSE,
                is_nullable |-> TRUE, description |-> ""] >>
    /\ Doc("p1").relationships[1].to_table = "Customers"
    /\ Doc("p1").relationships[1].to_column = "CustomerID"

\* The fields of a relationship and the upstream column each is read from.
RelationshipFields ==
    [from_table |-> "FromTableName", from_column |-> "FromColumnName",
     to_table |-> "ToTableName", to_column |-> "ToColumnName",
     cardinality |-> "Cardinality", cross_filter_direction |-> "CrossFilteringBehavior"]

\* C15: when reading the relationships does not raise, the slot has one
\* relationship per upstream row, in order; is_active is the row's IsActive
\* when the row has one and TRUE when it has none; each other field is the
\* row's value when the row has one and "" when it has none; a row with
\* missing fields never turns the slot into the error placeholder.
C15_RelationshipDefaults ==
    \A i \in live :
        (metadata[i] # None /\ ~FacetRaises("relationships", Handle(i))) =>
            LET rows == Handle(i).relationships
                rels == Doc(i).relationships
            IN
            /\ Len(rels) = Len(rows)
            /\ \A k \in 1..Len(rows) :
                  /\ DOMAIN rels[k] = DOMAIN RelationshipFields \cup {"is_active"}
                  /\ rels[k].is_active
                        = (IF "IsActive" \in DOMAIN rows[k] THEN rows[k].IsActive ELSE TRUE)
                  /\ \A f \in DOMAIN RelationshipFields :
                        rels[k][f] = (IF RelationshipFields[f] \in DOMAIN rows[k]
                                      THEN rows[k][RelationshipFields[f]] ELSE "")

C15_Witness ==
    /\ metadata["p1"] # None
    /\ "relationships" \notin env.raises
    /\ Len(env.relationships) = 2
    /\ "IsActive" \notin DOMAIN env.relationships[2]
    /\ Doc("p1").relationships[1].is_active = FALSE
    /\ Doc("p1").relationships[2]
          = [from_table |-> "Sales", from_column |-> "", to_table |-> "Customers",
             to_column |-> "", cardinality |-> "", cross_filter_direction |-> "",
             is_active |-> TRUE]

\* C16: a call of an insight function (_identify_key_metrics,
\* _extract_insights, _simplify_for_business) leaves the metadata document
\* and the attributes of the generator as they were (nothing is stored), the
\* report it returns is computed from the document as it is at the call, and
\* a call that follows a call of the same function returns an equal report.
C16_Step ==
    gcalls' = gcalls + 1 =>
        LET weight == 2 * CountOf(gdoc, "tables") + 3 * CountOf(gdoc, "measures")
                      + CountOf(gdoc, "relationships") + 2 * QueryCountOf(gdoc)
        IN
        /\ gdoc' = gdoc
        /\ gattrs' = gattrs
        /\ gret'.kind \in {"key_metrics", "insights", "business"}
        /\ gret'.kind = "insights" =>
              /\ DOMAIN gret'.value = {"complexity_score", "data_sources", "key_metrics"}
              /\ gret'.value.complexity_score = weight
        /\ gret'.kind = "business" =>
              /\ DOMAIN gret'.value = {"overview", "key_insights", "data_sources"}
              /\ gret'.value.key_insights.complexity_score = weight
              /\ gret'.value.data_sources = gret'.value.key_insights.data_sources
        /\ gret'.kind = gret.kind => gret'.value = gret.value

C16_ReportRecomputed == [][C16_Step]_vars

C16_Witness ==
    /\ gcalls >= 2
    /\ gret.kind = "business"
    /\ gret.value.key_insights.complexity_score = 13
    /\ gret.value.key_insights.key_metrics = << "Measure_1", "Measure_2" >>
    /\ gret.value.data_sources = << "Excel", "SQL Server" >>
    /\ gattrs = {"metadata", "output_dir", "docs_dir", "pbnj_dir", "jinja_env"}
    /\ Len(gdoc.measures) = 2

\* C17: a call on one instance changes nothing of another instance (its
\* handle, its document, its loader, stat and accessor counts, its last
\* outcome); every instance that holds a handle has loaded it itself, by
\* exactly one successful invocation of the loader; the document an instance
\* holds is an object it built itself, and two instances of the same file
\* hold equal documents that are distinct objects.
C17_Step ==
    \A i \in live :
        CallOn(i) =>
            \A j \in live \ {i} :
                /\ model'[j] = model[j]
                /\ metadata'[j] = metadata[j]
                /\ loaderCalls'[j] = loaderCalls[j] /\ loaderRaised'[j] = loaderRaised[j]
                /\ statCalls'[j] = statCalls[j]
                /\ reads'[j] = reads[j]
                /\ built'[j] = built[j]
                /\ ret'[j] = ret[j] /\ saved'[j] = saved[j]

C17_Own ==
    \A i \in live :
        /\ loaderCalls[i] - loaderRaised[i] = (IF model[i] = None THEN 0 ELSE 1)
        /\ (model[i] # None /\ raised[i] = 0) => loaderCalls[i] = 1
        /\ metadata[i] # None =>
              /\ metadata[i][1].id = << i, 1 >>
              /\ model[i] # None
              /\ \A j \in live \ {i} :
                    metadata[j] # None =>
                        /\ Doc(j) = Doc(i)
                        /\ metadata[j][1].id # metadata[i][1].id

C17_IndependentInstances == [](C17_Own) /\ [][C17_Step]_vars

C17_Witness ==
    /\ metadata["p1"] # None /\ metadata["p2"] # None
    /\ loaderCalls["p1"] = 1 /\ raised["p1"] = 0
    /\ loaderCalls["p2"] = 2 /\ loaderRaised["p2"] = 1
    /\ metadata["p1"][1].id = << "p1", 1 >> /\ metadata["p2"][1].id = << "p2", 1 >>

\* A request has just been answered.
Answered(route) == requests' = requests + 1 /\ request'.route = route

\* The server state a rejected request must leave alone.
ServerUnchanged ==
    UNCHANGED << snapshot, current_project_path, current_metadata, temp_files, exports, docs >>

\* C18: GET /api/project/metadata answers 200 with the current metadata when
\* a project is loaded; with none loaded it answers 200 with the content of
\* .pbnj/metadata.json when that file exists and 404 when it does not.  The
\* code does not do this: every such request ends in UnboundLocalError.
C18_GetMetadata ==
    request.route = "metadata" =>
        IF current_metadata # None THEN response = Response(200, current_metadata[1])
        ELSE IF snapshot # None THEN response = Response(200, snapshot[1])
        ELSE response.status = 404

\* C19: an upload whose file name is missing, empty or does not end in .pbix
\* is answered 400 "File must be a .pbix file" and changes nothing: no temp
\* file, no snapshot, no documentation, and the two globals as before.
C19_Step ==
    (/\ Answered("upload")
     /\ LET f == request'.arg IN
        \/ f = None
        \/ f = Some(<< >>)
        \/ Len(f[1]) < 5
        \/ << f[1][Len(f[1]) - 4], f[1][Len(f[1]) - 3], f[1][Len(f[1]) - 2],
              f[1][Len(f[1]) - 1], f[1][Len(f[1])] >> # << ".", "p", "b", "i", "x" >>)
    => /\ response' = [status |-> 400, body |-> [detail |-> "File must be a .pbix file"]]
       /\ ServerUnchanged

C19_UploadRejected == [][C19_Step]_vars

C19_Witness ==
    /\ request = [route |-> "upload",
                  arg |-> Some(<< "a", ".", "p", "b", "i", "x", ".", "t", "x", "t" >>)]
    /\ response.status = 400
    /\ current_metadata # None
    /\ current_metadata[1].file_info.name = << "a", ".", "p", "b", "i", "x" >>
    /\ temp_files = {}

\* C20: an export request with no project loaded is answered 404 whatever
\* the format (also a format that is not supported); with a project loaded
\* and a format other than json and markdown it is answered 400 "Unsupported
\* export format" and no export file is written.
C20_Step ==
    Answered("export") =>
        /\ current_metadata = None =>
              /\ response' = [status |-> 404, body |-> [detail |-> "No project loaded"]]
              /\ ServerUnchanged
        /\ (current_metadata # None /\ request'.arg \notin {"json", "markdown"}) =>
              /\ response' = [status |-> 400, body |-> [detail |-> "Unsupported export format"]]
              /\ ServerUnchanged

C20_ExportChecks == [][C20_Step]_vars

C20_Witness ==
    /\ request = [route |-> "export", arg |-> "pdf"]
    /\ response.status = 400
    /\ current_metadata # None
    /\ exports = {}

\* A step that is one call of op on the helper.
GitCallMade(op) == gitreq'.op = op /\ gitcalls' = gitcalls + 1

\* C21: init_repo on a path that is already a git repository initialises
\* nothing, writes no .gitignore and makes no commit; a first init_repo makes
\* the path a repository, so every later init_repo leaves it as it is.
C21_Step ==
    GitCallMade("init_repo") =>
        /\ worktree = "repository" =>
              /\ UNCHANGED << worktree, gitignore, commits, index, changes >>
              /\ gitret'.kind = "none"
        /\ worktree = "directory" => worktree' = "repository"

C21_InitRepoOnce == [][C21_Step]_vars

C21_Witness ==
    /\ gitreq.op = "init_repo"
    /\ gitcalls = 3
    /\ commits = << Commit("Initial commit - Add .gitignore", {".gitignore"}) >>
    /\ index = {"README.md"}
    /\ gitignore = Some(DefaultGitignore)

\* C22: commit_changes stages every change that is not ignored and then, when
\* the index holds something, appends exactly one commit with the given
\* message and the staged files; when the index holds nothing it appends none.
C22_Step ==
    (GitCallMade("commit_changes") /\ gitret'.kind # "raise") =>
        LET staged == index \cup (changes \ Ignored(gitignore)) IN
        /\ changes' = changes \cap Ignored(gitignore)
        /\ IF staged # {}
           THEN /\ Len(commits') = Len(commits) + 1
                /\ SubSeq(commits', 1, Len(commits)) = commits
                /\ commits'[Len(commits')] = Commit(gitreq'.arg, staged)
                /\ index' = {}
           ELSE commits' = commits /\ index' = {}

C22_CommitChanges == [][C22_Step]_vars

C22_Witness ==
    /\ gitreq.op = "commit_changes"
    /\ gitcalls = 2
    /\ Len(commits) = 2
    /\ commits[2] = Commit("", {"README.md", "notes.txt"})
    /\ changes = {"report.pbix"}
    /\ index = {}

\* C23: is_git_repo returns False without raising for every path that is not
\* a repository, a path that does not exist included, and True exactly when
\* the repository can be opened.
C23_IsGitRepo ==
    gitreq.op = "is_git_repo" =>
        /\ gitret.kind = "bool"
        /\ gitret.value = (worktree = "repository")

\* A step that is one run of the command name.
CliRan(name) == command'.name = name /\ runs' = runs + 1

\* The run printed the "No PBNJ project found" line last, exited with code 1
\* and did nothing else.
NoWork ==
    /\ console'[Len(console')] = NoProjectLine
    /\ exit_code' = Some(1)
    /\ UNCHANGED << generated, serving, snapshot, docs, exports, gdoc, gattrs, pbnj_dir >>

\* C24: docs and export without .pbnj/metadata.json, and serve without the
\* directory .pbnj, print "No PBNJ project found" and exit with code 1, and
\* generate nothing, export nothing and do not start the server.
C24_Step ==
    /\ ((CliRan("docs") \/ CliRan("export")) /\ snapshot = None) => NoWork
    /\ (CliRan("serve") /\ ~pbnj_dir) => NoWork

C24_NoProject == [][C24_Step]_vars

C24_Witness ==
    /\ command = [name |-> "docs", format |-> Some("json")]
    /\ pbnj_dir
    /\ snapshot = None
    /\ runs = 2
    /\ exit_code = Some(1)
    /\ console = << "Generating documentation in cwd", NoProjectLine >>
    /\ generated = {}
    /\ ~serving

\* The text before the first let: the whole text when it holds no let.
BeforeFirstLet(t) == IF Find(t, LetKw) = 0 THEN t ELSE SubSeq(t, 1, Find(t, LetKw) - 1)

\* C25: the text before the first let, followed by the code fields of the
\* queries in their order, is the raw text, character for character.
C25_SplitLosesNothing ==
    queries # None =>
        BeforeFirstLet(text) \o Concat([k \in 1..Len(queries[1]) |-> queries[1][k].code]) = text

C25_Witness ==
    /\ queries # None
    /\ text = << "b", "l", "e", "t", " ", "l", "e", "t" >>
    /\ Len(queries[1]) = 2
    /\ queries[1][1].code = << "l", "e", "t", " " >>
    /\ queries[1][2].code = << "l", "e", "t" >>

\* The last call on instance i raised error.
LastRaised(i, error) == ret[i].kind = "raise" /\ ret[i].value = error

\* C26: after a call that failed no document is cached, and the next call
\* runs the extraction again: after a loader failure it invokes the loader
\* again; after a stat failure it keeps the handle, does not invoke the
\* loader and reaches the stat again; when it succeeds it assembles the
\* document.
C26_Step ==
    \A i \in live :
        (ret[i].kind = "raise" /\ CallOn(i)) =>
            /\ LastRaised(i, "LoadError") =>
                  /\ model[i] = None
                  /\ loaderCalls'[i] = loaderCalls[i] + 1
            /\ LastRaised(i, "StatError") =>
                  /\ model[i] # None
                  /\ model'[i] = model[i]
                  /\ loaderCalls'[i] = loaderCalls[i]
                  /\ loaderRaised'[i] = loaderRaised[i]
                  /\ statCalls'[i] = statCalls[i] + 1
            /\ ret'[i].kind # "raise" =>
                  /\ built'[i] = built[i] + 1
                  /\ statCalls'[i] = statCalls[i] + 1
                  /\ metadata'[i] # None

C26_NothingCached == \A i \in live : ret[i].kind = "raise" => metadata[i] = None

C26_RetryAfterFailure == [](C26_NothingCached) /\ [][C26_Step]_vars

C26_Witness ==
    \E i \in live :
        /\ calls[i] = 3
        /\ loaderCalls[i] = 2 /\ loaderRaised[i] = 1
        /\ statCalls[i] = 2 /\ statRaised[i] = 1
        /\ built[i] = 1
        /\ metadata[i] # None
        /\ ret[i].kind = "document"

\* C27: an upload answered 500 leaves current_metadata and
\* current_project_path as they were before the request.  The code does not
\* do this: the two globals are assigned right after the parse, before the
\* snapshot is written and the documentation is generated.
C27_Step ==
    (Answered("upload") /\ response'.status = 500) =>
        UNCHANGED << current_metadata, current_project_path >>

C27_FailedUploadKeepsProject == [][C27_Step]_vars

\* The number of records the upstream m holds for a facet, a failed
\* sequence-typed facet standing for one record and a failed power_query
\* facet for no query.
UpstreamCount(F, m) ==
    IF FacetRaises(F, m) THEN (IF F = "power_query" THEN 0 ELSE 1)
    ELSE CASE F = "tables" -> Len(m.tables)
           [] F = "measures" -> Len(m.dax_measures)
           [] F = "relationships" -> Len(m.relationships)
           [] OTHER -> IF m.power_query = None THEN 0
                       ELSE Cardinality(LetPositions(m.power_query[1]))

\* C28: a failed tables, measures or relationships facet counts as one
\* record in get_summary and adds its weight once (2, 3, 1) to the complexity
\* score; a failed power_query facet counts no query in both.
C28_FailedFacetCounts ==
    \A i \in live :
        /\ ret[i].kind = "summary" =>
              /\ ret[i].value.table_count = UpstreamCount("tables", Handle(i))
              /\ ret[i].value.measure_count = UpstreamCount("measures", Handle(i))
              /\ ret[i].value.relationship_count = UpstreamCount("relationships", Handle(i))
              /\ ret[i].value.power_query_count = UpstreamCount("power_query", Handle(i))
        /\ (score # None /\ metadata[i] # None) =>
              score[1] = 2 * UpstreamCount("tables", Handle(i))
                         + 3 * UpstreamCount("measures", Handle(i))
                         + 1 * UpstreamCount("relationships", Handle(i))
                         + 2 * UpstreamCount("power_query", Handle(i))

C28_Witness ==
    /\ ret["p1"].kind = "summary"
    /\ Handle("p1").raises = {"dax_measures", "power_query"}
    /\ Len(Handle("p1").dax_measures) = 2
    /\ Handle("p1").power_query = Some(TwoQueryText)
    /\ ret["p1"].value.measure_count = 1
    /\ ret["p1"].value.power_query_count = 0
    /\ ret["p1"].value.table_count = 2
    /\ score = Some(9)

\* The key metrics in the value the last insight call returned.
ReportedKeyMetrics ==
    CASE gret.kind = "key_metrics" -> gret.value
      [] gret.kind = "insights" -> gret.value.key_metrics
      [] gret.kind = "business" -> gret.value.key_insights.key_metrics
      [] OTHER -> << >>

\* C29: the key metrics name no measure of position 6 or later, and when
\* one of the first five entries is malformed they hold fewer than five
\* names, whatever follows.
C29_OnlyFirstFive ==
    gret.kind \in {"key_metrics", "insights", "business"} =>
        LET v == ReportedKeyMetrics
            M == IF "measures" \in DOMAIN gdoc THEN gdoc.measures ELSE << >>
            named(k) == "nondict" \notin DOMAIN M[k] /\ "name" \in DOMAIN M[k]
        IN
        /\ \A k \in 6..Len(M) : named(k) => \A j \in 1..Len(v) : v[j] # M[k].name
        /\ (\E k \in 1..Len(M) : k <= 5 /\ ~named(k)) => Len(v) < 5

C29_Witness ==
    /\ gret.kind = "insights"
    /\ "measures" \in DOMAIN gdoc
    /\ Len(gdoc.measures) = 6
    /\ "name" \notin DOMAIN gdoc.measures[3]
    /\ "name" \in DOMAIN gdoc.measures[6]
    /\ gret.value.key_metrics = << "Measure_1", "Measure_2", "Measure_4", "Measure_5" >>

\* The rows of the schema m.schema that belong to the table name.
RowsOfTable(m, name) == {r \in 1..Len(m.schema) : m.schema[r].TableName = name}

\* C30: when the conversion of a row of one table raises in the column
\* extraction, that table has an empty columns sequence, each other table
\* has one column per schema row of its own, and the tables facet is the
\* sequence of all the tables and no error placeholder.
C30_ColumnFailureIsolated ==
    \A i \in live :
        (metadata[i] # None /\ ~FacetRaises("tables", Handle(i))) =>
            LET m == Handle(i)
                T == Doc(i).tables
            IN
            /\ Len(T) = Len(m.tables)
            /\ \A k \in 1..Len(T) :
                  /\ "error" \notin DOMAIN T[k]
                  /\ T[k].name = m.tables[k]
                  /\ IF \E r \in RowsOfTable(m, m.tables[k]) : "broken" \in DOMAIN m.schema[r]
                     THEN T[k].columns = << >>
                     ELSE /\ Len(T[k].columns) = Cardinality(RowsOfTable(m, m.tables[k]))
                          /\ \A j \in 1..Len(T[k].columns) :
                                T[k].columns[j].name =
                                    m.schema[KthOf(RowsOfTable(m, m.tables[k]), j)].ColumnName

C30_Witness ==
    /\ metadata["p1"] # None
    /\ Handle("p1").raises = {}
    /\ Handle("p1").tables = << "Sales", "Customers" >>
    /\ Handle("p1").schema = SchemaRows \o << BrokenRow("Customers") >>
    /\ Len(Doc("p1").tables) = 2
    /\ Doc("p1").tables[2].columns = << >>
    /\ Len(Doc("p1").tables[1].columns) = 2
    /\ Doc("p1").tables[1].columns[1].name = "Amount"
====
